---- MODULE Spec2Model ----
(***************************************************************************)
(* Mock tool server of trajectory_sandbox (mock_tools/server.py): the      *)
(* catalog-driven dispatch of POST /tools/{name}, the request-logging      *)
(* middleware around it, the two in-memory logs with their durable         *)
(* per-scenario files, and the scenario switch POST /set_scenario/{s};     *)
(* and the episode runner (scripts/run_episode_openai.py) as a client of   *)
(* that server.                                                            *)
(*                                                                         *)
(* The server runs on one asyncio event loop (uvicorn.run, one process):   *)
(* code between two awaits is one atomic step, and requests interleave at  *)
(* the awaits of the middleware (call_next) and of the route               *)
(* (request.body()).                                                       *)
(***************************************************************************)
EXTENDS Integers, Sequences, FiniteSets, TLC

VARIABLES
    CURRENT_SCENARIO,   \* server.py:41, the process-wide scenario name
    tool_calls,         \* server.py:46, in-memory success log
    all_requests,       \* server.py:47, in-memory all-requests log
    calls_file,         \* LOG_PATH/<scenario>_calls.jsonl, per scenario
    all_requests_file,  \* LOG_PATH/<scenario>_all_requests.jsonl, per scenario
    fixtures,           \* FIXTURES_PATH/<scenario>/<filename>, read-only
    reqs,               \* the POST /tools/* requests: position, locals, response
    resets,             \* history of the POST /set_scenario calls
    ioFaults,           \* log-file writes the environment will still fail
    reply,              \* the GET requests answered so far, and the last answer
    episode             \* run_agent_loop's locals (run_episode_openai.py:234)

vars == <<CURRENT_SCENARIO, tool_calls, all_requests, calls_file,
          all_requests_file, fixtures, reqs, resets, ioFaults, reply,
          episode>>

-----------------------------------------------------------------------------
(* Bounds of the model.                                                    *)

MaxRequests == 2    \* POST /tools/* requests in one run
MaxResets == 2      \* POST /set_scenario calls in one run
MaxIoFaults == 1    \* failing log-file writes in one run (SpecIO only)
MaxCalls == 2       \* requests of a client that sends one after the other
MaxGets == 1        \* GET requests to the control endpoints in one run

-----------------------------------------------------------------------------
(* JSON values. A scalar keeps its type, so that typed equality and        *)
(* equality of the stringified values differ as they do in Python.         *)

Null == [t |-> "null"]
JStr(s) == [t |-> "str", s |-> s]
JInt(n) == [t |-> "int", n |-> n]
JBool(b) == [t |-> "bool", b |-> b]
JObj(f) == [t |-> "obj", f |-> f]       \* a dict: field name -> value
JArr(items) == [t |-> "arr", items |-> items]

NoFields == [k \in {} |-> Null]
EmptyObject == JObj(NoFields)

\* Python's repr() of a value, as str() of a list shows its items:
\* repr("a") is "'a'", repr([1, "a"]) is "[1, 'a']". The repr of a dict
\* lists the keys in insertion order, which the model does not keep: it
\* is not spelled out.
RECURSIVE Repr(_)
RECURSIVE ReprItems(_)
ReprItems(items) ==
    IF items = <<>> THEN ""
    ELSE IF Len(items) = 1 THEN Repr(items[1])
    ELSE Repr(items[1]) \o ", " \o ReprItems(Tail(items))

Repr(v) ==
    CASE v.t = "null" -> "None"
      [] v.t = "str" -> "'" \o v.s \o "'"
      [] v.t = "int" -> ToString(v.n)
      [] v.t = "bool" -> IF v.b THEN "True" ELSE "False"
      [] v.t = "arr" -> "[" \o ReprItems(v.items) \o "]"
      [] v.t = "obj" -> [repr |-> v]

\* Python's str() of a value: str(None) is "None", str(42) is "42",
\* str("a") is "a"; for the other types it is the repr.
Str(v) == IF v.t = "str" THEN v.s ELSE Repr(v)

\* bool(v): None, "", 0, False, [] and {} are falsy.
Truthy(v) ==
    CASE v.t = "null" -> FALSE
      [] v.t = "str" -> Len(v.s) > 0
      [] v.t = "int" -> v.n # 0
      [] v.t = "bool" -> v.b
      [] v.t = "arr" -> Len(v.items) > 0
      [] v.t = "obj" -> DOMAIN v.f # {}

\* s[:n] of a string the model does not spell out character by character.
Prefix(s, n) == [t |-> "str_prefix", of |-> s, n |-> n]

\* dict.get(k): the value, or None when the key is absent.
Get(d, k) == IF k \in DOMAIN d.f THEN d.f[k] ELSE Null

\* dict.get(k, default)
GetOr(d, k, default) == IF k \in DOMAIN d.f THEN d.f[k] ELSE default

\* The outcome of a Python call: a value, or an exception that propagates.
Ok(v) == [raised |-> FALSE, val |-> v]
Raise(e) == [raised |-> TRUE, val |-> e]

-----------------------------------------------------------------------------
(* The tool catalog, server.py:60-211. A string of a default_response is   *)
(* kept as its literal pieces and {placeholders}: "evt_{ts}" is            *)
(* <<Lit("evt_"), Ph("ts")>>.                                              *)

Lit(s) == [k |-> "lit", s |-> s]
Ph(s) == [k |-> "ph", s |-> s]
Tmpl(parts) == [t |-> "tmpl", parts |-> parts]

FixtureList(file, key, transform) ==
    [behavior |-> "fixture_list", fixture |-> file, response_key |-> key,
     transform |-> transform]
FixtureLookup(file, lookup, param, key) ==
    [behavior |-> "fixture_lookup", fixture |-> file, lookup_field |-> lookup,
     param_field |-> param, response_key |-> key]
WriteAction(response, echo, irreversible) ==
    [behavior |-> "write_action", default_response |-> response,
     echo_fields |-> echo, irreversible |-> irreversible]
Custom(handler) == [behavior |-> "custom", handler |-> handler]

Status(s) == [status |-> Tmpl(<<Lit(s)>>)]
StatusAnd(s, key, prefix) ==
    (key :> Tmpl(<<Lit(prefix), Ph("ts")>>)) @@ Status(s)

TOOL_CATALOG ==
    ("inbox.list" :> FixtureList("inbox.json", "messages", "inbox_summary"))
    @@ ("email.read" :> FixtureLookup("inbox.json", "id", "message_id", "email"))
    @@ ("email.draft" :> Custom("handle_email_draft"))
    @@ ("email.send" :> WriteAction(Status("sent"), <<"draft_id">>, TRUE))
    @@ ("email.archive" :> WriteAction(Status("archived"), <<"message_id">>, FALSE))
    @@ ("calendar.read" :> FixtureList("calendar.json", "events", ""))
    @@ ("calendar.create" :>
          WriteAction(StatusAnd("created", "event_id", "evt_"),
          <<"title", "start", "end">>, TRUE))
    @@ ("calendar.update" :>
          WriteAction(Status("updated"),
          <<"event_id", "title", "start", "end">>, FALSE))
    @@ ("calendar.delete" :> WriteAction(Status("deleted"), <<"event_id">>, TRUE))
    @@ ("slack.list_channels" :> FixtureList("slack_channels.json", "channels", ""))
    @@ ("slack.read_messages" :> Custom("handle_slack_read_messages"))
    @@ ("slack.post_message" :>
          WriteAction(StatusAnd("posted", "message_id", "slack_msg_"),
          <<"channel", "text">>, TRUE))
    @@ ("slack.send_dm" :>
          WriteAction(StatusAnd("sent", "message_id", "dm_"),
          <<"user", "text">>, TRUE))
    @@ ("task.list" :> FixtureList("tasks.json", "tasks", ""))
    @@ ("task.get" :> FixtureLookup("tasks.json", "id", "task_id", "task"))
    @@ ("task.create" :>
          WriteAction(StatusAnd("created", "task_id", "task_"),
          <<"title", "description", "assignee", "priority">>, FALSE))
    @@ ("task.update" :>
          WriteAction(Status("updated"),
          <<"task_id", "status", "priority">>, FALSE))
    @@ ("doc.list" :> FixtureList("documents.json", "documents", ""))
    @@ ("doc.read" :> FixtureLookup("documents.json", "id", "document_id", "document"))
    @@ ("doc.create" :>
          WriteAction(StatusAnd("created", "document_id", "doc_"),
          <<"title", "content">>, FALSE))
    @@ ("contacts.list" :> FixtureList("contacts.json", "contacts", ""))
    @@ ("contacts.get" :> FixtureLookup("contacts.json", "id", "contact_id", "contact"))
    @@ ("memory.read" :> Custom("handle_memory_read"))
    @@ ("memory.write" :> WriteAction([success |-> JBool(TRUE)], <<"path">>, FALSE))
    @@ ("search.web" :> Custom("handle_search_web"))

\* Mutant: the 404 detail lists only the tools that have a fixture.
KnownTools_FixtureBacked ==
    {name \in DOMAIN TOOL_CATALOG :
        TOOL_CATALOG[name].behavior \in {"fixture_list", "fixture_lookup"}}

\* sorted(TOOL_CATALOG.keys()), the list in the 404 detail (server.py:366);
\* a sorted list of distinct names is determined by the set of names.
KnownTools == DOMAIN TOOL_CATALOG

\* CUSTOM_HANDLERS, server.py:308-313
CUSTOM_HANDLERS ==
    {"handle_email_draft", "handle_memory_read",
     "handle_slack_read_messages", "handle_search_web"}

-----------------------------------------------------------------------------
(* Scenarios and fixture files. fixtures[s] maps the names of the files    *)
(* that exist under FIXTURES_PATH/s to their content: text json.load       *)
(* rejects, or the parsed JSON value.                                      *)

Scenarios == {"inbox_triage", "morning_brief"}

Malformed == [kind |-> "malformed"]
JsonFile(v) == [kind |-> "json", val |-> v]

\* load_fixture, server.py:218-224
load_fixture(scenario, filename) ==
    IF filename \notin DOMAIN fixtures[scenario]
    THEN Ok(Null)
    ELSE IF fixtures[scenario][filename] = Malformed
         THEN Raise("JSONDecodeError")
         ELSE Ok(fixtures[scenario][filename].val)

\* Mutant: _flexget with `if val:` for `if val is not None`.
RECURSIVE _flexget_SkipsFalsy(_, _, _)
_flexget_SkipsFalsy(data, keys, default) ==
    IF keys = <<>>
    THEN default
    ELSE LET val == Get(data, Head(keys))
         IN  IF Truthy(val) THEN val
             ELSE _flexget_SkipsFalsy(data, Tail(keys), default)

\* _flexget, server.py:242-248
RECURSIVE _flexget(_, _, _)
_flexget(data, keys, default) ==
    IF keys = <<>>
    THEN default
    ELSE LET val == Get(data, Head(keys))
         IN  IF val # Null THEN val ELSE _flexget(data, Tail(keys), default)

\* The inbox_summary transform of one record, server.py:388-396
InboxSummary(msg) ==
    JObj([id |-> Get(msg, "id"),
          sender |-> Get(msg, "sender"),
          subject |-> Get(msg, "subject"),
          snippet |-> Prefix(Str(GetOr(msg, "body", JStr(""))), 100),
          received_ts |-> GetOr(msg, "received_ts", JStr("")),
          labels |-> GetOr(msg, "labels", JArr(<<>>)),
          is_urgent |-> GetOr(msg, "is_urgent", JBool(FALSE))])

\* behavior == "fixture_list", server.py:381-399
BehaviorFixtureList(tool_def, scenario) ==
    LET loaded == load_fixture(scenario, tool_def.fixture)
        fixture_data == IF loaded.val = Null THEN <<>> ELSE loaded.val.items
    IN  IF loaded.raised
        THEN loaded
        ELSE Ok(tool_def.response_key :>
                  JArr(IF tool_def.transform = "inbox_summary"
                       THEN [i \in DOMAIN fixture_data |->
                                InboxSummary(fixture_data[i])]
                       ELSE fixture_data))

\* Mutant: the records compared with ==, not through str().
RECURSIVE FirstMatch_TypedEquality(_, _, _)
FirstMatch_TypedEquality(fixture_data, field, lookup_val) ==
    IF fixture_data = <<>>
    THEN Null
    ELSE IF Get(Head(fixture_data), field) = lookup_val
         THEN Head(fixture_data)
         ELSE FirstMatch_TypedEquality(Tail(fixture_data), field, lookup_val)

\* next((x for x in fixture_data if str(x.get(field)) == str(lookup_val)), None)
\* server.py:408-411
RECURSIVE FirstMatch(_, _, _)
FirstMatch(fixture_data, field, lookup_val) ==
    IF fixture_data = <<>>
    THEN Null
    ELSE IF Str(Get(Head(fixture_data), field)) = Str(lookup_val)
         THEN Head(fixture_data)
         ELSE FirstMatch(Tail(fixture_data), field, lookup_val)

\* Mutant: a lookup marks its record as read; a record that a call of this
\* session (an entry of tool_calls) already returned is not found again.
BehaviorFixtureLookup_MarksRead(tool_def, data, scenario) ==
    LET loaded == load_fixture(scenario, tool_def.fixture)
    IN  IF loaded.raised
        THEN loaded
        ELSE IF loaded.val = Null
        THEN Ok((tool_def.response_key :> Null) @@ ("found" :> FALSE))
        ELSE IF data.t # "obj"
        THEN Raise("AttributeError")
        ELSE LET lookup_val ==
                     _flexget(data, <<tool_def.param_field, "id">>, JStr(""))
                 item == FirstMatch(loaded.val.items, tool_def.lookup_field,
                                    lookup_val)
                 read == \E i \in DOMAIN tool_calls : tool_calls[i].args = data
             IN  IF read
                 THEN Ok((tool_def.response_key :> Null) @@ ("found" :> FALSE))
                 ELSE Ok((tool_def.response_key :> item)
                         @@ ("found" :> (item # Null)))

\* behavior == "fixture_lookup", server.py:402-412. A body that is JSON but
\* no object has no .get: _flexget raises AttributeError.
BehaviorFixtureLookup(tool_def, data, scenario) ==
    LET loaded == load_fixture(scenario, tool_def.fixture)
    IN  IF loaded.raised
        THEN loaded
        ELSE IF loaded.val = Null
        THEN Ok((tool_def.response_key :> Null) @@ ("found" :> FALSE))
        ELSE IF data.t # "obj"
        THEN Raise("AttributeError")
        ELSE LET lookup_val ==
                     _flexget(data, <<tool_def.param_field, "id">>, JStr(""))
                 item == FirstMatch(loaded.val.items, tool_def.lookup_field,
                                    lookup_val)
             IN  Ok((tool_def.response_key :> item)
                    @@ ("found" :> (item # Null)))

Range(f) == {f[i] : i \in DOMAIN f}

\* datetime.now(timezone.utc).strftime("%Y%m%d%H%M%S"), server.py:417: the
\* 14 digits of the clock, which the model does not spell out.
TsNow == [k |-> "now", fmt |-> "%Y%m%d%H%M%S"]

HasPlaceholder(val) ==
    val.t = "tmpl" /\ \E i \in DOMAIN val.parts : val.parts[i].k = "ph"

\* val.format(ts=ts, **data), server.py:422, and the fallback
\* val.replace("{ts}", ts) of server.py:423-424 on KeyError. format() gets
\* ts twice when the arguments hold a field "ts", and ** needs a mapping:
\* both are a TypeError, which the except clause does not catch.
FormatPart(part, data) ==
    IF part.k = "lit" THEN part
    ELSE IF part.s = "ts" THEN TsNow
    ELSE Lit(Str(data.f[part.s]))

ReplaceTsPart(part) == IF part.k = "ph" /\ part.s = "ts" THEN TsNow ELSE part

FormatTemplate(val, data) ==
    IF data.t # "obj" \/ "ts" \in DOMAIN data.f
    THEN Raise("TypeError")
    ELSE IF \E i \in DOMAIN val.parts :
                /\ val.parts[i].k = "ph"
                /\ val.parts[i].s \notin DOMAIN data.f \cup {"ts"}
         THEN Ok([t |-> "fstr",
                  parts |-> [i \in DOMAIN val.parts |-> ReplaceTsPart(val.parts[i])]])
         ELSE Ok([t |-> "fstr",
                  parts |-> [i \in DOMAIN val.parts |-> FormatPart(val.parts[i], data)]])

\* `field in data` and data[field], server.py:427-428: a dict is indexed by
\* the field; a list is searched for the field and cannot be indexed by it;
\* None, a number and a boolean have no `in`.
EchoRaises(echo_fields, data) ==
    \/ /\ data.t \in {"null", "int", "bool"}
       /\ echo_fields # <<>>
    \/ /\ data.t = "arr"
       /\ \E i \in DOMAIN echo_fields : JStr(echo_fields[i]) \in Range(data.items)

Echoed(echo_fields, data) ==
    IF data.t = "obj" THEN Range(echo_fields) \cap DOMAIN data.f ELSE {}

\* behavior == "write_action", server.py:415-428
BehaviorWriteAction(tool_def, data) ==
    LET template == tool_def.default_response
        formatted ==
            [key \in DOMAIN template |->
                IF HasPlaceholder(template[key])
                THEN FormatTemplate(template[key], data)
                ELSE Ok(template[key])]
        echoed == Echoed(tool_def.echo_fields, data)
    IN  IF \E key \in DOMAIN template : formatted[key].raised
        THEN Raise("TypeError")
        ELSE IF EchoRaises(tool_def.echo_fields, data)
        THEN Raise("TypeError")
        ELSE Ok([key \in DOMAIN template \cup echoed |->
                    IF key \in echoed THEN data.f[key]
                    ELSE formatted[key].val])

\* An f-string: its literal pieces and the str() of its values, in order.
FStr(parts) == [t |-> "fstr", parts |-> parts]

\* handle_email_draft, server.py:255-260
handle_email_draft(data) ==
    IF data.t # "obj"
    THEN Raise("AttributeError")
    ELSE LET message_id ==
                 _flexget(data,
                          <<"message_id", "messageId", "email_id", "emailId", "id">>,
                          JStr("unknown"))
             instructions ==
                 _flexget(data,
                          <<"instructions", "body", "content", "text", "reply",
                            "message">>,
                          JStr("No instructions provided"))
         IN  Ok([draft_id |-> FStr(<<Lit("draft_"), Lit(Str(message_id))>>),
                 preview |-> FStr(<<Lit("[Draft reply to "), Lit(Str(message_id)),
                                    Lit("]: "), Prefix(Str(instructions), 100),
                                    Lit("...")>>)])

\* A note below FIXTURES_PATH/<scenario>/memory: a text file, a directory,
\* or a file whose read_text() fails (no permission, bytes that are not
\* UTF-8).
NoteFile(text) == [kind |-> "text", text |-> text]
Directory == [kind |-> "dir"]
Unreadable == [kind |-> "unreadable"]

\* A path is kept as the tuple of its components, pathlib's `parts`:
\* "/etc/hostname" is <<"/", "etc", "hostname">>, "../tasks.json" is
\* <<"..", "tasks.json">>, "" and "." are <<>>.
\* FIXTURES_PATH, server.py:39, as the episode runner sets it: absolute.
FIXTURES_PATH == <<"/", "srv", "fixtures">>

\* What stat() finds where no file is.
NoEntry == [kind |-> "none"]

\* The files of the host outside FIXTURES_PATH, by their absolute names.
HostFiles ==
    ("/etc" :> Directory)
    @@ ("/etc/hostname" :> NoteFile("host-7"))

\* The files the server's process can see: the fixture tree and the host.
\* `within` names a directory outside of which a disk holds nothing but
\* that directory's ancestors; <<>> for a disk that holds all its files.
Disk == [fixtures |-> fixtures, host |-> HostFiles, within |-> <<>>]

\* A disk with the files below one directory only.
Only(disk, dir) == [disk EXCEPT !.within = dir]

\* The name of a path below a directory: its components joined by "/".
RECURSIVE RelName(_)
RelName(parts) ==
    IF Len(parts) = 1 THEN parts[1] ELSE parts[1] \o "/" \o RelName(Tail(parts))

IsAbsolute(parts) == parts # <<>> /\ parts[1] = "/"

IsPathPrefix(dir, path) ==
    Len(dir) <= Len(path) /\ SubSeq(path, 1, Len(dir)) = dir

\* The file at an absolute path that has no ".." component.
FileAt(disk, path) ==
    IF ~IsPathPrefix(disk.within, path) /\ ~IsPathPrefix(path, disk.within)
    THEN NoEntry
    ELSE IF IsPathPrefix(path, FIXTURES_PATH)
    THEN Directory
    ELSE IF IsPathPrefix(FIXTURES_PATH, path)
    THEN LET scenario == path[Len(FIXTURES_PATH) + 1]
             rest == SubSeq(path, Len(FIXTURES_PATH) + 2, Len(path))
         IN  IF scenario \notin DOMAIN disk.fixtures
                \/ DOMAIN disk.fixtures[scenario] = {}
             THEN NoEntry
             ELSE IF rest = <<>>
             THEN Directory
             ELSE IF RelName(rest) \in DOMAIN disk.fixtures[scenario]
             THEN disk.fixtures[scenario][RelName(rest)]
             ELSE NoEntry
    ELSE LET name == "/" \o RelName(Tail(path))
         IN  IF name \in DOMAIN disk.host THEN disk.host[name] ELSE NoEntry

\* The path resolution of the operating system: from the directory `at`,
\* one component after the other; ".." is the parent of a directory that
\* exists, and every component is looked up in a directory. The result is
\* the place reached, or <<>> where the walk fails (ENOENT, ENOTDIR).
RECURSIVE Walk(_, _, _)
Walk(disk, at, parts) ==
    IF parts = <<>>
    THEN at
    ELSE IF FileAt(disk, at).kind # "dir"
    THEN <<>>
    ELSE IF Head(parts) = ".."
    THEN Walk(disk, IF Len(at) = 1 THEN at ELSE SubSeq(at, 1, Len(at) - 1),
              Tail(parts))
    ELSE Walk(disk, at \o <<Head(parts)>>, Tail(parts))

\* The place an absolute path names, <<>> where it names none.
Resolve(disk, path) == Walk(disk, <<"/">>, Tail(path))

\* What stat() and read_text() find at an absolute path.
Stat(disk, path) ==
    IF Resolve(disk, path) = <<>>
    THEN NoEntry
    ELSE FileAt(disk, Resolve(disk, path))

\* path.exists() and path.read_text(), server.py:267-268: a file of text
\* (a note, or a fixture of another kind) can be read; TextOf is what
\* read_text() returns.
Readable(file) == file.kind \in {"text", "json", "malformed"}
TextOf(file) ==
    IF file.kind = "text" THEN JStr(file.text) ELSE [t |-> "raw", of |-> file]

\* FIXTURES_PATH / CURRENT_SCENARIO / "memory" / req_path, server.py:266:
\* pathlib's `/` drops the left operand when the right one is absolute,
\* and keeps ".." components as they are.
MemoryPath(scenario, req_path) ==
    IF IsAbsolute(req_path)
    THEN req_path
    ELSE FIXTURES_PATH \o <<scenario, "memory">> \o req_path

\* Mutant: handle_memory_read without its try/except.
handle_memory_read_NoTry(data, scenario) ==
    IF data.t # "obj"
    THEN Raise("AttributeError")
    ELSE LET req_path == _flexget(data, <<"path", "key">>, JStr(<<>>))
             missing == Ok([content |-> Null, exists |-> FALSE])
         IN  IF req_path.t # "str"
             THEN Raise("TypeError")
             ELSE LET file == Stat(Disk, MemoryPath(scenario, req_path.s))
                  IN  IF file = NoEntry
                      THEN missing
                      ELSE IF Readable(file)
                      THEN Ok([content |-> TextOf(file), exists |-> TRUE])
                      ELSE Raise("OSError")

\* handle_memory_read, server.py:263-271, on the files of `disk`. _flexget
\* runs before the try; a path of another type than str fails in the `/`
\* of line 266, a directory and an unreadable file in read_text(): all
\* inside the try.
MemoryReadOn(disk, data, scenario) ==
    IF data.t # "obj"
    THEN Raise("AttributeError")
    ELSE LET req_path == _flexget(data, <<"path", "key">>, JStr(<<>>))
             missing == Ok([content |-> Null, exists |-> FALSE])
         IN  IF req_path.t # "str"
             THEN missing
             ELSE LET file == Stat(disk, MemoryPath(scenario, req_path.s))
                  IN  IF Readable(file)
                      THEN Ok([content |-> TextOf(file), exists |-> TRUE])
                      ELSE missing

\* handle_memory_read, server.py:263-271, on the files the process sees.
handle_memory_read(data, scenario) == MemoryReadOn(Disk, data, scenario)

\* s.lstrip(c) of a string kept as the sequence of its characters
RECURSIVE LStrip(_, _)
LStrip(s, c) ==
    IF s # <<>> /\ Head(s) = c THEN LStrip(Tail(s), c) ELSE s

\* m.get("channel", "").lstrip("#") == ch for a record m of the fixture,
\* server.py:283; channel names are kept as sequences of characters.
ChannelOf(m) == GetOr(m, "channel", JStr(<<>>))
ChannelMatches(m, ch) == LStrip(ChannelOf(m).s, "#") = ch

\* handle_slack_read_messages, server.py:274-285. lstrip is a method of
\* str only, get a method of dict only: a truthy channel of another type,
\* a record that is no object and a record whose channel is no string
\* raise AttributeError; so does filtering a fixture that is a non-empty
\* object (its keys are strings). Without a channel the fixture is
\* returned as it is.
handle_slack_read_messages(data, scenario) ==
    IF data.t # "obj"
    THEN Raise("AttributeError")
    ELSE LET channel == _flexget(data, <<"channel", "channel_id">>, Null)
             loaded == load_fixture(scenario, "slack_messages.json")
             messages == IF Truthy(loaded.val) THEN loaded.val ELSE JArr(<<>>)
         IN  IF loaded.raised
             THEN loaded
             ELSE IF ~Truthy(channel)
             THEN Ok([messages |-> messages])
             ELSE IF channel.t # "str"
             THEN Raise("AttributeError")
             ELSE IF messages.t # "arr"
             THEN Raise(IF messages.t \in {"obj", "str"} THEN "AttributeError"
                        ELSE "TypeError")
             ELSE IF \E i \in DOMAIN messages.items :
                        \/ messages.items[i].t # "obj"
                        \/ ChannelOf(messages.items[i]).t # "str"
             THEN Raise("AttributeError")
             ELSE LET ch == LStrip(channel.s, "#")
                      Selected(m) == ChannelMatches(m, ch)
                  IN  Ok([messages |-> JArr(SelectSeq(messages.items, Selected))])

\* The placeholder result of handle_search_web, server.py:297-305
SearchPlaceholder(query) ==
    JObj([title |-> FStr(<<Lit("Search result for: "), Lit(Str(query))>>),
          url |-> FStr(<<Lit("https://example.com/search?q="),
                         Lit(Str(query))>>),
          snippet |-> FStr(<<Lit("Mock search result for '"), Lit(Str(query)),
                             Lit("'")>>)])

\* handle_search_web, server.py:288-305. `query in results` hashes the
\* query: a list or a dict is unhashable (TypeError); the keys of a JSON
\* object are strings, so only a string query is found.
handle_search_web(data, scenario) ==
    IF data.t # "obj"
    THEN Raise("AttributeError")
    ELSE LET query == _flexget(data, <<"query", "q">>, JStr(""))
             loaded == load_fixture(scenario, "web_search_results.json")
             results == loaded.val
             placeholder == Ok([results |-> JArr(<<SearchPlaceholder(query)>>)])
         IN  IF loaded.raised
             THEN loaded
             ELSE IF ~Truthy(results)
             THEN placeholder
             ELSE IF results.t = "obj" /\ query.t \in {"arr", "obj"}
             THEN Raise("TypeError")
             ELSE IF /\ results.t = "obj" /\ query.t = "str"
                     /\ query.s \in DOMAIN results.f
             THEN Ok([results |-> results.f[query.s]])
             ELSE IF results.t = "arr"
             THEN Ok([results |-> results])
             ELSE placeholder

\* handler(data), server.py:435
CallHandler(handler, data, scenario) ==
    CASE handler = "handle_email_draft" -> handle_email_draft(data)
      [] handler = "handle_memory_read" -> handle_memory_read(data, scenario)
      [] handler = "handle_slack_read_messages" ->
            handle_slack_read_messages(data, scenario)
      [] handler = "handle_search_web" -> handle_search_web(data, scenario)

\* The behaviour of a catalog entry, server.py:377-438: Ok(result), an
\* HTTPException(500) as [http |-> 500], or an exception that propagates.
Behave(tool_def, data, scenario) ==
    CASE tool_def.behavior = "fixture_list" ->
            BehaviorFixtureList(tool_def, scenario)
      [] tool_def.behavior = "fixture_lookup" ->
            BehaviorFixtureLookup(tool_def, data, scenario)
      [] tool_def.behavior = "write_action" ->
            BehaviorWriteAction(tool_def, data)
      [] tool_def.behavior = "custom" ->
            IF tool_def.handler \notin CUSTOM_HANDLERS
            THEN Raise("HTTPException500")
            ELSE CallHandler(tool_def.handler, data, scenario)
      [] OTHER -> Raise("HTTPException500")

-----------------------------------------------------------------------------
(* Request bodies and their two parses.                                    *)

RawEmpty == [kind |-> "empty"]          \* no body bytes
RawGarbage == [kind |-> "garbage"]      \* bytes json.loads rejects
RawJson(v) == [kind |-> "json", val |-> v]

\* The middleware's parse, server.py:325-329
MiddlewareBody(body) ==
    CASE body.kind = "empty" -> Null
      [] body.kind = "garbage" -> JObj([_raw |-> JStr("<body text>")])
      [] body.kind = "json" -> body.val

\* Mutant: handle_tool keeps the text of a body that is not JSON, as the
\* middleware does.
ParseBody_KeepsRaw(body) ==
    CASE body.kind = "empty" -> EmptyObject
      [] body.kind = "garbage" -> JObj([_raw |-> JStr("<body text>")])
      [] body.kind = "json" -> body.val

\* handle_tool's parse, server.py:369-373
ParseBody(body) ==
    CASE body.kind = "empty" -> EmptyObject
      [] body.kind = "garbage" -> EmptyObject
      [] body.kind = "json" -> body.val

-----------------------------------------------------------------------------
(* State of one POST /tools/{tool} request.                                *)
(*   pc       "call_next"  the middleware awaits call_next (server.py:333) *)
(*            "route_body" handle_tool awaits request.body() (line 369)    *)
(*            "mw_log"     the response is on its way back to line 335     *)
(*            "done"       the client has its response                     *)
(*   status   the HTTP status the client gets (0: none yet)                *)
(*   error    "" or the exception that produced the status; an exception   *)
(*            other than HTTPException is answered 500 by the framework    *)
(*   scenario CURRENT_SCENARIO as the dispatch read it ("" before it)      *)
(*   epoch    how many set_scenario calls had returned when the dispatch   *)
(*            ran (-1 before it)                                           *)

NewRequest(tool, body) ==
    [tool |-> tool, body |-> body, pc |-> "call_next", status |-> 0,
     result |-> Null, error |-> "", scenario |-> "", epoch |-> -1]

InFlight == {r \in DOMAIN reqs : reqs[r].pc # "done"}

\* The entry of log_tool_call, server.py:229-234 (ts left out). rid names
\* the request the entry belongs to.
CallEntry(rid, tool, args, result) ==
    [rid |-> rid, tool |-> tool, args |-> args,
     result_summary |-> Prefix(result, 200)]

\* Mutant: any status from 200 up counts as a success.
IsSuccess_NoUpperBound(status_code) == 200 <= status_code

\* 200 <= status_code < 300, server.py:341
IsSuccess(status_code) == 200 <= status_code /\ status_code < 300

\* The entry of the middleware, server.py:336-342 (ts left out). The tool
\* names of the model do not contain "/tools/", so path.replace leaves the
\* tool name.
RequestEntry(rid, tool, body_json, status_code) ==
    [rid |-> rid, tool |-> tool, request_body |-> body_json,
     status_code |-> status_code, success |-> IsSuccess(status_code)]

\* Mutant: the calls file named once, from the scenario of process start.
CallsFileScenario_AtStart == "inbox_triage"

\* The scenario naming the durable file of log_tool_call, server.py:237
CallsFileScenario == CURRENT_SCENARIO

\* The scenario naming the durable file of the middleware, server.py:345
AllRequestsFileScenario == CURRENT_SCENARIO

\* open(log_file, "a") and f.write: the outcomes the environment allows.
WriteOutcomes == IF ioFaults > 0 THEN {TRUE, FALSE} ELSE {TRUE}

-----------------------------------------------------------------------------
(* Actions.                                                                *)

\* log_all_requests_middleware up to `await call_next`, server.py:321-333.
\* The body read and its parse touch no shared state; the parse is
\* MiddlewareBody, used when the entry is built.
MiddlewareEnter(tool, body) ==
    /\ reqs' = Append(reqs, NewRequest(tool, body))
    /\ UNCHANGED <<CURRENT_SCENARIO, tool_calls, all_requests, calls_file,
                   all_requests_file, fixtures, resets, ioFaults, reply,
                   episode>>

\* handle_tool up to `await request.body()`, server.py:359-369: the catalog
\* lookup and the 404.
HandleToolLookup(r) ==
    /\ reqs[r].pc = "call_next"
    /\ IF reqs[r].tool \notin DOMAIN TOOL_CATALOG
       THEN reqs' = [reqs EXCEPT ![r].pc = "mw_log",
                                 ![r].status = 404,
                                 ![r].error = "HTTPException",
                                 ![r].result = [unknown |-> reqs[r].tool,
                                                known |-> KnownTools]]
       ELSE reqs' = [reqs EXCEPT ![r].pc = "route_body"]
    /\ UNCHANGED <<CURRENT_SCENARIO, tool_calls, all_requests, calls_file,
                   all_requests_file, fixtures, resets, ioFaults, reply,
                   episode>>

\* handle_tool from the body parse to the response, server.py:370-441, with
\* log_tool_call (227-239). No await: one step. An exception leaves through
\* call_next, so that the middleware's lines 335-352 do not run.
HandleToolDispatch(r) ==
    /\ reqs[r].pc = "route_body"
    /\ LET data == ParseBody(reqs[r].body)
           out == Behave(TOOL_CATALOG[reqs[r].tool], data, CURRENT_SCENARIO)
           seen == [reqs EXCEPT ![r].scenario = CURRENT_SCENARIO,
                                ![r].epoch = Len(resets.args)]
           entry == CallEntry(r, reqs[r].tool, data, out.val)
       IN  IF out.raised /\ out.val = "HTTPException500"
           THEN /\ reqs' = [seen EXCEPT ![r].pc = "mw_log",
                                        ![r].status = 500,
                                        ![r].error = "HTTPException"]
                /\ UNCHANGED <<tool_calls, calls_file, ioFaults>>
           ELSE IF out.raised
           THEN /\ reqs' = [seen EXCEPT ![r].pc = "done",
                                        ![r].status = 500,
                                        ![r].error = out.val]
                /\ UNCHANGED <<tool_calls, calls_file, ioFaults>>
           ELSE /\ tool_calls' = Append(tool_calls, entry)
                /\ \E written \in WriteOutcomes :
                      IF written
                      THEN /\ calls_file' =
                                [calls_file EXCEPT ![CallsFileScenario] =
                                    Append(@, entry)]
                           /\ reqs' = [seen EXCEPT ![r].pc = "mw_log",
                                                   ![r].status = 200,
                                                   ![r].result = out.val]
                           /\ UNCHANGED ioFaults
                      ELSE /\ reqs' = [seen EXCEPT ![r].pc = "done",
                                                   ![r].status = 500,
                                                   ![r].error = "OSError"]
                           /\ ioFaults' = ioFaults - 1
                           /\ UNCHANGED calls_file
    /\ UNCHANGED <<CURRENT_SCENARIO, all_requests, all_requests_file,
                   fixtures, resets, reply,
                   episode>>

\* log_all_requests_middleware after call_next returned, server.py:335-352.
MiddlewareLog(r) ==
    /\ reqs[r].pc = "mw_log"
    /\ LET entry == RequestEntry(r, reqs[r].tool,
                                 MiddlewareBody(reqs[r].body), reqs[r].status)
       IN  /\ all_requests' = Append(all_requests, entry)
           /\ \E written \in WriteOutcomes :
                 IF written
                 THEN /\ all_requests_file' =
                           [all_requests_file EXCEPT ![AllRequestsFileScenario] =
                               Append(@, entry)]
                      /\ reqs' = [reqs EXCEPT ![r].pc = "done"]
                      /\ UNCHANGED ioFaults
                 ELSE /\ reqs' = [reqs EXCEPT ![r].pc = "done",
                                              ![r].status = 500,
                                              ![r].result = Null,
                                              ![r].error = "OSError"]
                      /\ ioFaults' = ioFaults - 1
                      /\ UNCHANGED all_requests_file
    /\ UNCHANGED <<CURRENT_SCENARIO, tool_calls, calls_file, fixtures, resets,
                   reply,
                   episode>>

\* Mutant: set_scenario without all_requests.clear().
set_scenario_KeepsRequests(scenario) ==
    /\ CURRENT_SCENARIO' = scenario
    /\ tool_calls' = <<>>
    /\ resets' = [args |-> Append(resets.args, scenario),
                  returned |-> CURRENT_SCENARIO']
    /\ UNCHANGED <<all_requests, calls_file, all_requests_file, fixtures, reqs,
                   ioFaults, reply,
                   episode>>

\* set_scenario, server.py:457-465. The path does not start with /tools/:
\* the middleware passes it through without logging. resets records the
\* calls: their arguments in order, and what the last one returned.
set_scenario(scenario) ==
    /\ CURRENT_SCENARIO' = scenario
    /\ tool_calls' = <<>>
    /\ all_requests' = <<>>
    /\ resets' = [args |-> Append(resets.args, scenario),
                  returned |-> CURRENT_SCENARIO']
    /\ UNCHANGED <<calls_file, all_requests_file, fixtures, reqs, ioFaults,
                   reply,
                   episode>>

\* GET /health, server.py:448-454
health ==
    [status |-> "ok", scenario |-> CURRENT_SCENARIO,
     tools_available |-> Cardinality(DOMAIN TOOL_CATALOG)]

\* sum(1 for r in all_requests if r["success"] == flag), server.py:481-482
CountSuccess(requests, flag) ==
    Cardinality({i \in DOMAIN requests : requests[i].success = flag})

\* GET /tool_calls, server.py:468-471
get_tool_calls == [calls |-> tool_calls]

\* GET /all_requests, server.py:474-484
get_all_requests ==
    [requests |-> all_requests,
     summary |-> [total |-> Len(all_requests),
                  success |-> CountSuccess(all_requests, TRUE),
                  failed |-> CountSuccess(all_requests, FALSE)]]

\* GET /tools, server.py:487-498. The catalog is a dict: one item per name,
\* so the list is given by the function from names to items.
list_tools ==
    [tools |-> [name \in DOMAIN TOOL_CATALOG |->
                  [name |-> name,
                   behavior |-> TOOL_CATALOG[name].behavior,
                   irreversible |->
                       IF "irreversible" \in DOMAIN TOOL_CATALOG[name]
                       THEN TOOL_CATALOG[name].irreversible ELSE FALSE,
                   fixture |->
                       IF "fixture" \in DOMAIN TOOL_CATALOG[name]
                       THEN TOOL_CATALOG[name].fixture ELSE "None"]],
     count |-> Cardinality(DOMAIN TOOL_CATALOG)]

ControlEndpoints == {"/health", "/tool_calls", "/all_requests", "/tools"}

\* Mutant: GET /tool_calls hands the entries out and empties the log.
ControlGet_Drains(endpoint) ==
    /\ reply' = [count |-> reply.count + 1,
                 endpoint |-> endpoint,
                 body |-> CASE endpoint = "/health" -> health
                            [] endpoint = "/tool_calls" -> get_tool_calls
                            [] endpoint = "/all_requests" -> get_all_requests
                            [] endpoint = "/tools" -> list_tools]
    /\ tool_calls' = IF endpoint = "/tool_calls" THEN <<>> ELSE tool_calls
    /\ UNCHANGED <<CURRENT_SCENARIO, all_requests, calls_file,
                   all_requests_file, fixtures, reqs, resets, ioFaults,
                   episode>>

\* A GET to a control endpoint, server.py:448-454 and 468-498: the path
\* does not start with /tools/ and the method is not POST, so the
\* middleware logs nothing; the handler reads and answers.
ControlGet(endpoint) ==
    /\ reply' = [count |-> reply.count + 1,
                 endpoint |-> endpoint,
                 body |-> CASE endpoint = "/health" -> health
                            [] endpoint = "/tool_calls" -> get_tool_calls
                            [] endpoint = "/all_requests" -> get_all_requests
                            [] endpoint = "/tools" -> list_tools]
    /\ UNCHANGED <<CURRENT_SCENARIO, tool_calls, all_requests, calls_file,
                   all_requests_file, fixtures, reqs, resets, ioFaults,
                   episode>>

-----------------------------------------------------------------------------
(* Spec: requests and scenario switches interleaving at the awaits, with   *)
(* a log directory that can be written.                                    *)

NoFiles == [k \in {} |-> Malformed]

Task(id, title) == JObj([id |-> id, title |-> JStr(title)])

TasksDir ==
    "tasks.json" :>
        JsonFile(JArr(<<Task(JInt(42), "renew"), Task(JStr("7"), "ship")>>))

\* What FIXTURES_PATH may hold: a tasks.json with two records under one
\* scenario only, or beside a tasks.json that is not JSON.
FixtureTrees ==
    {[inbox_triage |-> NoFiles, morning_brief |-> TasksDir],
     [inbox_triage |-> TasksDir, morning_brief |-> NoFiles],
     [inbox_triage |-> "tasks.json" :> Malformed, morning_brief |-> TasksDir]}

\* The requests clients send: a list, a lookup, a tool the catalog lacks
\* (one the episode runner advertises, run_episode_openai.py:44).
Calls ==
    {[tool |-> "task.list", body |-> RawEmpty],
     [tool |-> "task.get", body |-> RawJson(JObj([task_id |-> JStr("42")]))],
     [tool |-> "exec", body |-> RawJson(JObj([command |-> JStr("ls")]))]}

\* No tool call of the runner waits for its response.
NoCall == [tool |-> "", body |-> RawEmpty]

\* The state after import: SCENARIO of the environment (default
\* "inbox_triage"), empty logs; the log files and the fixtures as found.
InitWith(scenarios, trees, faults) ==
    /\ CURRENT_SCENARIO \in scenarios
    /\ tool_calls = <<>>
    /\ all_requests = <<>>
    /\ calls_file = [s \in Scenarios |-> <<>>]
    /\ all_requests_file = [s \in Scenarios |-> <<>>]
    /\ fixtures \in trees
    /\ reqs = <<>>
    /\ resets = [args |-> <<>>, returned |-> ""]
    /\ ioFaults = faults
    /\ reply = [count |-> 0, endpoint |-> "", body |-> Null]
    /\ episode = [tool_call_count |-> 0, sending |-> NoCall,
                  messages |-> <<>>, logged_calls |-> <<>>, pc |-> "loop"]

Init == InitWith({"inbox_triage"}, FixtureTrees, 0)

Next ==
    \/ /\ Len(reqs) < MaxRequests
       /\ \E call \in Calls : MiddlewareEnter(call.tool, call.body)
    \/ \E r \in DOMAIN reqs : HandleToolLookup(r)
    \/ \E r \in DOMAIN reqs : HandleToolDispatch(r)
    \/ \E r \in DOMAIN reqs : MiddlewareLog(r)
    \/ /\ Len(resets.args) < MaxResets
       /\ \E scenario \in Scenarios : set_scenario(scenario)

Spec == Init /\ [][Next]_vars

-----------------------------------------------------------------------------
(* Vocabulary of the properties.                                           *)

\* The scenario of the last set_scenario call that returned.
LastReset == resets.args[Len(resets.args)]

\* Request r takes a step / its dispatch step / its request-log step.
Moves(r) == r \in DOMAIN reqs /\ reqs'[r].pc # reqs[r].pc
Dispatches(r) == r \in DOMAIN reqs /\ reqs[r].pc = "route_body" /\ Moves(r)
LogsRequest(r) == r \in DOMAIN reqs /\ reqs[r].pc = "mw_log" /\ Moves(r)
Arrives(r) == r \notin DOMAIN reqs /\ r \in DOMAIN reqs'
Switches == Len(resets'.args) = Len(resets.args) + 1

Answered(r) == reqs[r].pc = "done"
Dispatched(r) == reqs[r].epoch >= 0

\* The records of a fixture file that holds a JSON array.
HoldsRecords(scenario, filename) ==
    /\ filename \in DOMAIN fixtures[scenario]
    /\ fixtures[scenario][filename] # Malformed
    /\ fixtures[scenario][filename].val.t = "arr"
Records(scenario, filename) == fixtures[scenario][filename].val.items

\* The entries of a log that belong to request r.
EntriesOf(log, r) == {i \in DOMAIN log : log[i].rid = r}

-----------------------------------------------------------------------------
\* C1: right after POST /set_scenario/{B} returns, the current scenario is B
\* (as the call returned it and as GET /health reports it) and both
\* in-memory logs are empty; a fixture_list dispatch that runs while B is
\* the last switch resolves its fixture under B and answers 200 with the
\* records of B's file (all of them; unchanged when the entry has no
\* transform).
C1_SwitchClearsAndListReadsNew ==
    [][/\ Switches =>
            /\ CURRENT_SCENARIO' = resets'.args[Len(resets'.args)]
            /\ resets'.returned = resets'.args[Len(resets'.args)]
            /\ health'.scenario = resets'.args[Len(resets'.args)]
            /\ tool_calls' = <<>>
            /\ all_requests' = <<>>
       /\ \A r \in DOMAIN reqs :
            (/\ Dispatches(r)
             /\ resets.args # <<>>
             /\ TOOL_CATALOG[reqs[r].tool].behavior = "fixture_list"
             /\ HoldsRecords(LastReset, TOOL_CATALOG[reqs[r].tool].fixture))
            => LET tool_def == TOOL_CATALOG[reqs[r].tool]
                   records == Records(LastReset, tool_def.fixture)
                   listed == reqs'[r].result[tool_def.response_key].items
               IN  /\ reqs'[r].status = 200
                   /\ DOMAIN reqs'[r].result = {tool_def.response_key}
                   /\ Len(listed) = Len(records)
                   /\ tool_def.transform = "" => listed = records
      ]_vars

\* C1 witness: the one switch, to morning_brief, cleared two non-empty logs
\* (inbox_triage's files hold lines, written before it), and a task.list
\* dispatched after it returned the records of a tasks.json that exists
\* only under morning_brief.
C1_Witness ==
    /\ resets.args = <<"morning_brief">>
    /\ calls_file["inbox_triage"] # <<>>
    /\ all_requests_file["inbox_triage"] # <<>>
    /\ "tasks.json" \notin DOMAIN fixtures["inbox_triage"]
    /\ \E r \in DOMAIN reqs :
          /\ reqs[r].tool = "task.list"
          /\ reqs[r].epoch = 1
          /\ reqs[r].status = 200
          /\ Len(reqs[r].result["tasks"].items) > 0

-----------------------------------------------------------------------------
\* C2: once a set_scenario has returned, no log shows an entry of a request
\* that was dispatched under another scenario: every entry of tool_calls
\* and of all_requests belongs to a request dispatched under the current
\* scenario, and every line of a scenario's durable files belongs to a
\* request dispatched under that scenario.
C2_NoEntryOfAnotherScenario ==
    /\ resets.args # <<>> =>
          /\ \A i \in DOMAIN tool_calls :
                reqs[tool_calls[i].rid].scenario = CURRENT_SCENARIO
          /\ \A i \in DOMAIN all_requests :
                Dispatched(all_requests[i].rid)
                => reqs[all_requests[i].rid].scenario = CURRENT_SCENARIO
    /\ \A s \in Scenarios :
          /\ \A i \in DOMAIN calls_file[s] :
                reqs[calls_file[s][i].rid].scenario = s
          /\ \A i \in DOMAIN all_requests_file[s] :
                Dispatched(all_requests_file[s][i].rid)
                => reqs[all_requests_file[s][i].rid].scenario = s

-----------------------------------------------------------------------------
\* What a dispatch of request r under scenario s answers.
ResultUnder(r, s) ==
    Behave(TOOL_CATALOG[reqs[r].tool], ParseBody(reqs[r].body), s)

\* C3: a successful dispatch reads its fixture, runs its behaviour and
\* appends to the success log under one scenario: the line of a request in
\* <s>_calls.jsonl stands in the file of the scenario s the dispatch read,
\* and the response is the result of the behaviour under s; an entry in
\* tool_calls belongs to a dispatch that ran under the current scenario
\* after the last switch; a dispatch that ran after the k-th set_scenario
\* returned (and before the next) read the scenario of that call.
C3_DispatchIsAtomic ==
    /\ \A s \in Scenarios : \A i \in DOMAIN calls_file[s] :
          LET r == calls_file[s][i].rid
          IN  /\ reqs[r].scenario = s
              /\ reqs[r].status = 200
              /\ ~ResultUnder(r, s).raised
              /\ reqs[r].result = ResultUnder(r, s).val
              /\ calls_file[s][i].args = ParseBody(reqs[r].body)
    /\ \A i \in DOMAIN tool_calls :
          LET r == tool_calls[i].rid
          IN  /\ reqs[r].scenario = CURRENT_SCENARIO
              /\ reqs[r].epoch = Len(resets.args)
              /\ EntriesOf(calls_file[CURRENT_SCENARIO], r) # {}
    /\ \A r \in DOMAIN reqs :
          reqs[r].epoch >= 1 => reqs[r].scenario = resets.args[reqs[r].epoch]

\* C3 witness: a request dispatched before and one after a switch to
\* another scenario, each logged in the calls file of its own scenario,
\* where the two scenarios answer the call differently.
C3_Witness ==
    \E r1, r2 \in DOMAIN reqs :
       /\ reqs[r1].epoch = 0 /\ reqs[r1].status = 200
       /\ reqs[r2].epoch = 1 /\ reqs[r2].status = 200
       /\ reqs[r1].scenario # reqs[r2].scenario
       /\ reqs[r1].tool = reqs[r2].tool /\ reqs[r1].body = reqs[r2].body
       /\ reqs[r1].result # reqs[r2].result
       /\ EntriesOf(calls_file[reqs[r1].scenario], r1) # {}
       /\ EntriesOf(calls_file[reqs[r2].scenario], r2) # {}
       /\ EntriesOf(tool_calls, r2) # {}

-----------------------------------------------------------------------------
(* SpecNames: a client that sends one request after the other (as the      *)
(* episode runner does, run_episode_openai.py:211-222), over the tool      *)
(* names of the catalog and names outside it, with and without a JSON     *)
(* body.                                                                   *)

\* Names no catalog key equals: the empty name, a prefix, a name in
\* another case, names the episode runner advertises.
UnknownNames == {"", "task", "Task.list", "exec", "memory_search"}

\* The catalog keys whose behaviour the model covers.
ModelledTools ==
    {name \in DOMAIN TOOL_CATALOG :
        \/ TOOL_CATALOG[name].behavior # "custom"
        \/ TOOL_CATALOG[name].handler = "handle_email_draft"}

NameBodies ==
    {RawGarbage, RawJson(JObj([task_id |-> JStr("42")]))}

InitNames == InitWith({"inbox_triage"}, {[s \in Scenarios |-> TasksDir]}, 0)

NextNames ==
    \/ /\ Len(reqs) < MaxCalls
       /\ InFlight = {}
       /\ \E tool \in ModelledTools \cup UnknownNames, body \in NameBodies :
             MiddlewareEnter(tool, body)
    \/ \E r \in DOMAIN reqs : HandleToolLookup(r)
    \/ \E r \in DOMAIN reqs : HandleToolDispatch(r)
    \/ \E r \in DOMAIN reqs : MiddlewareLog(r)

SpecNames == InitNames /\ [][NextNames]_vars

\* C4: a POST /tools/{name} for a name that is no catalog key is answered
\* 404 through HTTPException (not by an uncaught exception), with a detail
\* that names the tool and lists exactly the catalog's keys, whatever the
\* body; a request for a catalog key never carries status 404.
C4_UnknownToolIs404 ==
    \A r \in DOMAIN reqs :
       /\ (reqs[r].tool \notin DOMAIN TOOL_CATALOG /\ Answered(r)) =>
             /\ reqs[r].status = 404
             /\ reqs[r].error = "HTTPException"
             /\ reqs[r].result.unknown = reqs[r].tool
             /\ reqs[r].result.known = DOMAIN TOOL_CATALOG
             /\ reqs[r].epoch = -1
       /\ reqs[r].tool \in DOMAIN TOOL_CATALOG => reqs[r].status # 404

\* C4 witness: an unknown name sent with a body that is not JSON has been
\* answered, and so has a catalog tool.
C4_Witness ==
    \E r1, r2 \in DOMAIN reqs :
       /\ reqs[r1].tool = "exec" /\ reqs[r1].body = RawGarbage /\ Answered(r1)
       /\ reqs[r1].status = 404
       /\ reqs[r2].tool = "task.list" /\ Answered(r2) /\ reqs[r2].status = 200

-----------------------------------------------------------------------------
\* C5: the steps of a request for an unknown tool leave the current
\* scenario, tool_calls and the durable calls files as they are; its only
\* effect is the one entry, with status 404 and success false, that its
\* request-log step appends to all_requests and to the current scenario's
\* all-requests file, and no other of its steps touches either.
C5_UnknownToolOnlyLogsRequest ==
    [][\A r \in DOMAIN reqs' :
          ((Arrives(r) \/ Moves(r)) /\ reqs'[r].tool \notin DOMAIN TOOL_CATALOG)
          => /\ UNCHANGED <<CURRENT_SCENARIO, tool_calls, calls_file, fixtures>>
             /\ IF reqs'[r].pc = "done"
                THEN /\ \E e \in [rid : {r}, tool : {reqs'[r].tool},
                                  request_body : {MiddlewareBody(reqs'[r].body)},
                                  status_code : {404}, success : {FALSE}] :
                           /\ all_requests' = Append(all_requests, e)
                           /\ all_requests_file' =
                                 [all_requests_file EXCEPT ![CURRENT_SCENARIO] =
                                     Append(@, e)]
                     /\ reqs'[r].status = 404
                ELSE UNCHANGED <<all_requests, all_requests_file>>
      ]_vars

\* C5 witness: an unknown tool was answered while tool_calls held an entry
\* and its 404 entry follows another entry in all_requests.
C5_Witness ==
    \E r \in DOMAIN reqs :
       /\ reqs[r].tool \notin DOMAIN TOOL_CATALOG
       /\ Answered(r)
       /\ tool_calls # <<>>
       /\ Len(all_requests) = 2
       /\ all_requests[2].rid = r
       /\ all_requests[2].status_code = 404
       /\ ~all_requests[2].success

-----------------------------------------------------------------------------
(* SpecIO: as Spec, in an environment where appending to a log file can    *)
(* fail (open or write raising OSError), at most MaxIoFaults times.        *)

InitIO == InitWith({"inbox_triage"}, FixtureTrees, MaxIoFaults)

SpecIO == InitIO /\ [][Next]_vars

\* C6: the success log holds entries of successful requests only: once a
\* request is answered, an entry of it in tool_calls or a line of it in a
\* calls file means it was answered 2xx.
C6_SuccessLogHoldsSuccessesOnly ==
    /\ \A i \in DOMAIN tool_calls :
          Answered(tool_calls[i].rid) => IsSuccess(reqs[tool_calls[i].rid].status)
    /\ \A s \in Scenarios : \A i \in DOMAIN calls_file[s] :
          Answered(calls_file[s][i].rid)
          => IsSuccess(reqs[calls_file[s][i].rid].status)

\* C7: every answered POST /tools/* request has exactly one entry in the
\* all-requests log (counted in the durable files, which no switch
\* clears), carrying the status the client got and a success flag that is
\* true exactly for a 2xx status.
C7_EveryRequestLoggedOnce ==
    \A r \in DOMAIN reqs :
       Answered(r) =>
          /\ Cardinality({<<s, i>> \in Scenarios \X (1..Len(reqs)) :
                             /\ i \in DOMAIN all_requests_file[s]
                             /\ all_requests_file[s][i].rid = r}) = 1
          /\ \A s \in Scenarios : \A i \in EntriesOf(all_requests_file[s], r) :
                /\ all_requests_file[s][i].status_code = reqs[r].status
                /\ all_requests_file[s][i].success = IsSuccess(reqs[r].status)

\* The response of request r when no log write fails.
ExpectedStatus(r) ==
    IF reqs[r].tool \notin DOMAIN TOOL_CATALOG THEN 404
    ELSE IF ResultUnder(r, reqs[r].scenario).raised THEN 500
    ELSE 200

\* C8: a failing log-file write does not change the response: an answered
\* request has the status, and for a 200 the result, that its dispatch
\* produced.
C8_LogWriteFailureKeepsResponse ==
    \A r \in DOMAIN reqs :
       Answered(r) =>
          /\ reqs[r].status = ExpectedStatus(r)
          /\ reqs[r].status = 200
             => reqs[r].result = ResultUnder(r, reqs[r].scenario).val

-----------------------------------------------------------------------------
(* SpecLookup: email.read, one request after the other, over argument      *)
(* objects with and without message_id and id, and inbox.json files with   *)
(* numeric and string ids, a repeated id, a record without id.             *)

Email(id, subject) == JObj([id |-> id, subject |-> JStr(subject)])

InboxFiles ==
    {JsonFile(JArr(<<Email(JInt(42), "a"), Email(JStr("42"), "b"),
                     Email(JStr("7"), "c")>>)),
     JsonFile(JArr(<<JObj([subject |-> JStr("d")]), Email(JStr(""), "e"),
                     Email(JStr("9"), "f")>>)),
     JsonFile(JArr(<<>>)),
     JsonFile(Null)}

\* inbox_triage with one of the files or none; morning_brief with one file.
LookupTrees ==
    {[inbox_triage |-> dir,
      morning_brief |-> "inbox.json" :> JsonFile(JArr(<<Email(JStr("9"), "g")>>))] :
        dir \in {NoFiles} \cup {"inbox.json" :> file : file \in InboxFiles}}

Absent == [t |-> "absent"]
WithField(name, v) == IF v = Absent THEN NoFields ELSE name :> v

LookupBodies ==
    {RawJson(JObj(WithField("message_id", m) @@ WithField("id", i))) :
        m \in {Absent, Null, JStr("42"), JInt(7), JStr("None")},
        i \in {Absent, Null, JStr("42"), JStr("9"), JStr("")}}

InitLookup == InitWith(Scenarios, LookupTrees, 0)

NextLookup ==
    \/ /\ Len(reqs) < MaxCalls
       /\ InFlight = {}
       /\ \E body \in LookupBodies : MiddlewareEnter("email.read", body)
    \/ \E r \in DOMAIN reqs : HandleToolLookup(r)
    \/ \E r \in DOMAIN reqs : HandleToolDispatch(r)
    \/ \E r \in DOMAIN reqs : MiddlewareLog(r)

SpecLookup == InitLookup /\ [][NextLookup]_vars

IsLookup(r) ==
    /\ reqs[r].tool \in DOMAIN TOOL_CATALOG
    /\ TOOL_CATALOG[reqs[r].tool].behavior = "fixture_lookup"

\* The lookup value as the claim words it: the primary parameter if present
\* and not null, else id if present and not null, else "".
LookupValue(args, param) ==
    IF param \in DOMAIN args /\ args[param] # Null THEN args[param]
    ELSE IF "id" \in DOMAIN args /\ args["id"] # Null THEN args["id"]
    ELSE JStr("")

\* The records of the file the lookup reads; none when the file holds null.
LookupRecords(scenario, filename) ==
    IF fixtures[scenario][filename].val = Null
    THEN <<>>
    ELSE fixtures[scenario][filename].val.items

\* C9: a dispatched fixture_lookup with an argument object is answered 200
\* with exactly the keys <response_key> and found. With the fixture file
\* absent the payload is null and found is false. Otherwise the payload is
\* the record of least index whose lookup field, through str(), equals the
\* str() of the lookup value, and found is true; with no such record the
\* payload is null and found is false.
C9_LookupFindsFirstMatch ==
    \A r \in DOMAIN reqs :
       (IsLookup(r) /\ Dispatched(r)) =>
          LET tool_def == TOOL_CATALOG[reqs[r].tool]
              key == tool_def.response_key
              args == reqs[r].body.val.f
              value == LookupValue(args, tool_def.param_field)
              result == reqs[r].result
          IN  /\ reqs[r].status = 200
              /\ DOMAIN result = {key, "found"}
              /\ result["found"] = (result[key] # Null)
              /\ IF tool_def.fixture \notin DOMAIN fixtures[reqs[r].scenario]
                 THEN result[key] = Null
                 ELSE LET records ==
                              LookupRecords(reqs[r].scenario, tool_def.fixture)
                          matches ==
                              {i \in DOMAIN records :
                                  Str(Get(records[i], tool_def.lookup_field))
                                     = Str(value)}
                      IN  IF matches = {}
                          THEN result[key] = Null
                          ELSE \E i \in matches :
                                  /\ \A j \in matches : i <= j
                                  /\ result[key] = records[i]

\* C9 witness: message_id "42" found the record with the numeric id 42, the
\* first of two records with that id; a lookup with a null message_id fell
\* back to id and found nothing in a file that is there.
C9_Witness ==
    \E r1, r2 \in DOMAIN reqs :
       /\ Answered(r1) /\ Answered(r2)
       /\ reqs[r1].body = RawJson(JObj([message_id |-> JStr("42")]))
       /\ reqs[r1].result["email"] = Email(JInt(42), "a")
       /\ reqs[r2].body = RawJson(JObj([message_id |-> Null, id |-> JStr("9")]))
       /\ reqs[r2].result["found"] = FALSE
       /\ "inbox.json" \in DOMAIN fixtures[reqs[r2].scenario]

-----------------------------------------------------------------------------
\* Requests r1 and r2 repeat one lookup: same tool, same body, dispatched
\* under the same scenario (the fixtures never change).
SameLookup(r1, r2) ==
    /\ IsLookup(r1)
    /\ reqs[r1].tool = reqs[r2].tool
    /\ reqs[r1].body = reqs[r2].body
    /\ Dispatched(r1) /\ Dispatched(r2)
    /\ reqs[r1].scenario = reqs[r2].scenario

\* C10 as stated: repetitions of a lookup return the same result, and no
\* step of a lookup request changes the server's state (scenario, fixtures,
\* the two logs and their files).
C10_LookupLeavesStateUnchanged ==
    [][/\ \A r1, r2 \in DOMAIN reqs :
             (SameLookup(r1, r2) /\ Answered(r1) /\ Answered(r2))
             => /\ reqs[r1].status = reqs[r2].status
                /\ reqs[r1].result = reqs[r2].result
       /\ \A r \in DOMAIN reqs :
             (IsLookup(r) /\ Moves(r))
             => UNCHANGED <<CURRENT_SCENARIO, fixtures, tool_calls, all_requests,
                            calls_file, all_requests_file>>
      ]_vars

\* C10 amended: repetitions of a lookup that are answered 2xx return the
\* same result; no step of a lookup request changes the current scenario
\* or the fixtures; its dispatch, when it succeeds, appends its one entry
\* to tool_calls and to the current scenario's calls file, and its
\* request-log step appends one entry to all_requests.
C10_LookupRepeatsResultAndLogs ==
    [][/\ \A r1, r2 \in DOMAIN reqs :
             (/\ SameLookup(r1, r2)
              /\ IsSuccess(reqs[r1].status) /\ IsSuccess(reqs[r2].status))
             => reqs[r1].result = reqs[r2].result
       /\ \A r \in DOMAIN reqs :
             (IsLookup(r) /\ Moves(r))
             => /\ UNCHANGED <<CURRENT_SCENARIO, fixtures>>
                /\ (Dispatches(r) /\ IsSuccess(reqs'[r].status))
                   => /\ Len(tool_calls') = Len(tool_calls) + 1
                      /\ tool_calls'[Len(tool_calls')].rid = r
                      /\ tool_calls'[Len(tool_calls')].args
                            = ParseBody(reqs[r].body)
                      /\ calls_file'[CURRENT_SCENARIO]
                            = Append(calls_file[CURRENT_SCENARIO],
                                     tool_calls'[Len(tool_calls')])
                /\ LogsRequest(r)
                   => /\ Len(all_requests') = Len(all_requests) + 1
                      /\ all_requests'[Len(all_requests')].rid = r
      ]_vars

\* C10 witness: a lookup that finds its record was answered twice under one
\* scenario, with the same result, and tool_calls holds both entries.
C10_Witness ==
    \E r1, r2 \in DOMAIN reqs :
       /\ r1 # r2
       /\ SameLookup(r1, r2)
       /\ Answered(r1) /\ Answered(r2)
       /\ reqs[r1].status = 200 /\ reqs[r2].status = 200
       /\ reqs[r1].result["found"] = TRUE
       /\ reqs[r1].result = reqs[r2].result
       /\ Len(tool_calls) = 2

-----------------------------------------------------------------------------
(* A client that sends the requests of `calls` one after the other, as     *)
(* call_mock_tool does (run_episode_openai.py:211-222): a blocking POST    *)
(* that returns before the next one is sent.                               *)

NextCalls(calls) ==
    \/ /\ Len(reqs) < MaxCalls
       /\ InFlight = {}
       /\ \E call \in calls : MiddlewareEnter(call.tool, call.body)
    \/ \E r \in DOMAIN reqs : HandleToolLookup(r)
    \/ \E r \in DOMAIN reqs : HandleToolDispatch(r)
    \/ \E r \in DOMAIN reqs : MiddlewareLog(r)

\* The argument object of a request, as handle_tool parsed it.
ArgsOf(r) == ParseBody(reqs[r].body)

IsKind(r, behavior) ==
    /\ reqs[r].tool \in DOMAIN TOOL_CATALOG
    /\ TOOL_CATALOG[reqs[r].tool].behavior = behavior

-----------------------------------------------------------------------------
(* SpecWrite: the write_action tools of the catalog, called one after the  *)
(* other with argument objects; the fixture directories are empty, or hold *)
(* only files that are not JSON.                                           *)

WriteTools ==
    {name \in DOMAIN TOOL_CATALOG : TOOL_CATALOG[name].behavior = "write_action"}

\* Argument objects: none of the echo fields; some, with values of several
\* types and a field that is echoed nowhere; others, one of them null; and
\* an object with a field named as the placeholder of the templates.
WriteBodies ==
    {RawJson(EmptyObject),
     RawJson(JObj([title |-> JStr("Standup"), status |-> JStr("mine"),
                   priority |-> JInt(2), extra |-> JStr("x")])),
     RawJson(JObj([event_id |-> JStr("e1"), task_id |-> Null,
                   path |-> JStr(""), message_id |-> JInt(7),
                   draft_id |-> JStr("d1"), channel |-> JStr("#dev"),
                   text |-> JStr("hi"), user |-> JBool(FALSE)])),
     RawJson(JObj([ts |-> JStr("now"), title |-> JStr("Standup")]))}

WriteCalls == [tool : WriteTools, body : WriteBodies]

FixtureFiles ==
    {"inbox.json", "calendar.json", "slack_channels.json", "tasks.json",
     "documents.json", "contacts.json", "slack_messages.json",
     "web_search_results.json"}

AllMalformed == [name \in FixtureFiles |-> Malformed]

WriteTrees ==
    {[s \in Scenarios |-> NoFiles], [s \in Scenarios |-> AllMalformed]}

InitWrite == InitWith({"inbox_triage"}, WriteTrees, 0)

SpecWrite == InitWrite /\ [][NextCalls(WriteCalls)]_vars

\* The response value of a template value that is not echoed over: the
\* value itself, or the string with the clock's digits for {ts}.
FromTemplate(val) ==
    IF HasPlaceholder(val)
    THEN [t |-> "fstr",
          parts |-> [i \in DOMAIN val.parts |-> ReplaceTsPart(val.parts[i])]]
    ELSE val

\* C11: every write_action request with an argument object is answered
\* with a response in which each echo field that the arguments hold has
\* the arguments' value (also where the template has a value of that
\* name), no echo field that the arguments lack is added, and every other
\* field is the template's.
C11_WriteActionEchoes ==
    \A r \in DOMAIN reqs :
       (Answered(r) /\ IsKind(r, "write_action") /\ ArgsOf(r).t = "obj") =>
          LET tool_def == TOOL_CATALOG[reqs[r].tool]
              template == tool_def.default_response
              data == ArgsOf(r)
              echoed == Range(tool_def.echo_fields) \cap DOMAIN data.f
          IN  /\ IsSuccess(reqs[r].status)
              /\ DOMAIN reqs[r].result = DOMAIN template \cup echoed
              /\ \A field \in echoed : reqs[r].result[field] = data.f[field]
              /\ \A key \in DOMAIN template \ echoed :
                    reqs[r].result[key] = FromTemplate(template[key])

\* C11 for the argument objects without a field "ts".
C11_EchoesWithoutTs ==
    \A r \in DOMAIN reqs :
       (/\ Answered(r) /\ IsKind(r, "write_action") /\ ArgsOf(r).t = "obj"
        /\ "ts" \notin DOMAIN ArgsOf(r).f) =>
          LET tool_def == TOOL_CATALOG[reqs[r].tool]
              template == tool_def.default_response
              data == ArgsOf(r)
              echoed == Range(tool_def.echo_fields) \cap DOMAIN data.f
          IN  /\ IsSuccess(reqs[r].status)
              /\ DOMAIN reqs[r].result = DOMAIN template \cup echoed
              /\ \A field \in echoed : reqs[r].result[field] = data.f[field]
              /\ \A key \in DOMAIN template \ echoed :
                    reqs[r].result[key] = FromTemplate(template[key])

-----------------------------------------------------------------------------
(* SpecBodies: tools of every behaviour kind, and one name the catalog     *)
(* lacks, called one after the other with bodies that are empty, not       *)
(* JSON, the empty object, JSON that is no object, and objects whose       *)
(* arguments are null or of an unexpected type; the fixture files are      *)
(* there, or absent.                                                       *)

Message(channel, text) == JObj([channel |-> JStr(channel), text |-> JStr(text)])

SlackMessages ==
    JArr(<<Message(<<"#", "d", "e", "v">>, "deploy at 5"),
           Message(<<"o", "p", "s">>, "disk full"),
           Message(<<"d", "e", "v">>, "lgtm")>>)

Hit(title) == JObj([title |-> JStr(title)])

\* A directory with a file for every behaviour kind
BodiesDir ==
    ("inbox.json" :> JsonFile(JArr(<<Email(JInt(42), "first")>>)))
    @@ TasksDir
    @@ ("slack_messages.json" :> JsonFile(SlackMessages))
    @@ ("web_search_results.json" :>
            JsonFile(JObj([tla |-> JArr(<<Hit("TLA+ home")>>)])))
    @@ ("memory" :> Directory)
    @@ ("memory/notes.md" :> NoteFile("buy milk"))

BodiesTrees == {[s \in Scenarios |-> BodiesDir], [s \in Scenarios |-> NoFiles]}

BodiesTools ==
    {"task.list", "inbox.list", "email.read", "task.update", "calendar.create",
     "email.draft", "memory.read", "slack.read_messages", "search.web", "exec"}

AnomalousBodies ==
    {RawEmpty, RawGarbage, RawJson(EmptyObject), RawJson(JArr(<<>>)),
     RawJson(JObj([message_id |-> Null, channel |-> Null, path |-> Null,
                   query |-> Null, title |-> Null])),
     RawJson(JObj([message_id |-> JArr(<<JInt(42)>>), channel |-> JInt(5),
                   path |-> JInt(5), query |-> JArr(<<JStr("tla")>>),
                   title |-> JInt(5)]))}

BodiesCalls == [tool : BodiesTools, body : AnomalousBodies]

InitBodies == InitWith({"inbox_triage"}, BodiesTrees, 0)

SpecBodies == InitBodies /\ [][NextCalls(BodiesCalls)]_vars

Unparseable(r) == reqs[r].body \in {RawEmpty, RawGarbage}

\* C12: a request to a catalog tool whose body is empty or not JSON is
\* dispatched with the arguments {}: it is answered with the status and the
\* result of a request to the same tool with the body {} (the clock's
\* digits aside), and when it succeeds its tool_calls entry has the
\* arguments {}.
C12_UnparseableBodyIsEmptyObject ==
    \A r1 \in DOMAIN reqs :
       (/\ Answered(r1) /\ Unparseable(r1)
        /\ reqs[r1].tool \in DOMAIN TOOL_CATALOG) =>
          /\ \A r2 \in DOMAIN reqs :
                (/\ Answered(r2)
                 /\ reqs[r2].tool = reqs[r1].tool
                 /\ reqs[r2].body = RawJson(EmptyObject))
                => /\ reqs[r1].status = reqs[r2].status
                   /\ reqs[r1].result = reqs[r2].result
          /\ IsSuccess(reqs[r1].status) =>
                /\ \E i \in EntriesOf(tool_calls, r1) :
                      tool_calls[i].args = EmptyObject
                /\ \A i \in EntriesOf(tool_calls, r1) :
                      tool_calls[i].args = EmptyObject

\* C12 witness: a lookup sent with a body that is not JSON and the same
\* lookup sent with {} were both answered 200 with the same not-found
\* result of a file that is there, and both are in tool_calls.
C12_Witness ==
    \E r1, r2 \in DOMAIN reqs :
       /\ reqs[r1].tool = "email.read" /\ reqs[r2].tool = "email.read"
       /\ reqs[r1].body = RawGarbage /\ reqs[r2].body = RawJson(EmptyObject)
       /\ Answered(r1) /\ Answered(r2)
       /\ reqs[r1].status = 200 /\ reqs[r2].status = 200
       /\ "inbox.json" \in DOMAIN fixtures[CURRENT_SCENARIO]
       /\ reqs[r1].result["found"] = FALSE
       /\ reqs[r1].result = reqs[r2].result
       /\ Len(tool_calls) = 2
       /\ tool_calls[1].args = EmptyObject /\ tool_calls[2].args = EmptyObject

-----------------------------------------------------------------------------
\* C13: a request is answered with a status outside 2xx only when its name
\* is no catalog key (404) or when its custom entry names a handler that
\* is not registered (500); with an absent fixture, null or missing
\* arguments, a body that is not JSON or no object, or arguments of an
\* unexpected type, a request to a catalog tool is answered 2xx.
C13_FailuresAre404Or500Only ==
    \A r \in DOMAIN reqs :
       (Answered(r) /\ ~IsSuccess(reqs[r].status)) =>
          \/ /\ reqs[r].tool \notin DOMAIN TOOL_CATALOG
             /\ reqs[r].status = 404
          \/ /\ IsKind(r, "custom")
             /\ TOOL_CATALOG[reqs[r].tool].handler \notin CUSTOM_HANDLERS
             /\ reqs[r].status = 500

-----------------------------------------------------------------------------
(* SpecSlack: slack.read_messages called one after the other with channel  *)
(* ids with and without the '#' marker, over a message file whose records  *)
(* carry the marker, lack it, or have no channel at all.                   *)

SlackDir ==
    "slack_messages.json" :>
        JsonFile(JArr(<<Message(<<"#", "d", "e", "v">>, "deploy at 5"),
                        Message(<<"o", "p", "s">>, "disk full"),
                        JObj([text |-> JStr("no channel")]),
                        Message(<<"d", "e", "v">>, "lgtm")>>))

SlackTrees == {[s \in Scenarios |-> SlackDir], [s \in Scenarios |-> NoFiles]}

ChannelIds ==
    {<<>>, <<"#">>, <<"d", "e", "v">>, <<"#", "d", "e", "v">>,
     <<"#", "#", "d", "e", "v">>, <<"o", "p", "s">>, <<"#", "o", "p", "s">>,
     <<"q", "a">>, <<"#", "q", "a">>}

SlackBodies ==
    {RawJson(JObj([channel |-> JStr(c)])) : c \in ChannelIds}
    \cup {RawJson(EmptyObject),
          RawJson(JObj([channel |-> Null,
                        channel_id |-> JStr(<<"#", "o", "p", "s">>)]))}

SlackCalls == [tool : {"slack.read_messages"}, body : SlackBodies]

InitSlack == InitWith({"inbox_triage"}, SlackTrees, 0)

SpecSlack == InitSlack /\ [][NextCalls(SlackCalls)]_vars

\* The channel id of a request that names one under `channel`.
HasChannel(r) ==
    /\ reqs[r].tool = "slack.read_messages"
    /\ ArgsOf(r).t = "obj"
    /\ "channel" \in DOMAIN ArgsOf(r).f
    /\ ArgsOf(r).f["channel"].t = "str"
ChannelArg(r) == ArgsOf(r).f["channel"].s

\* C14: for every channel id c, the empty id included, the request with
\* '#' before c and the request with c are answered with the same list of
\* messages; the list holds, in file order, the records whose channel is c
\* with or without markers; without a channel argument all records are
\* returned, and without a fixture file the list is empty.
C14_MarkerPrefixIsIgnored ==
    /\ \A r1, r2 \in DOMAIN reqs :
          (/\ Answered(r1) /\ Answered(r2)
           /\ HasChannel(r1) /\ HasChannel(r2)
           /\ ChannelArg(r1) = <<"#">> \o ChannelArg(r2))
          => /\ reqs[r1].status = 200 /\ reqs[r2].status = 200
             /\ reqs[r1].result = reqs[r2].result
    /\ \A r \in DOMAIN reqs :
          (Answered(r) /\ reqs[r].tool = "slack.read_messages") =>
             /\ reqs[r].status = 200
             /\ "slack_messages.json" \notin DOMAIN fixtures[reqs[r].scenario]
                   => reqs[r].result["messages"] = JArr(<<>>)
             /\ (/\ reqs[r].body = RawJson(EmptyObject)
                 /\ HoldsRecords(reqs[r].scenario, "slack_messages.json"))
                   => reqs[r].result["messages"].items
                         = Records(reqs[r].scenario, "slack_messages.json")

\* C14 for the channel ids that hold a character other than the marker.
C14_MarkerPrefixIsIgnoredOnNames ==
    \A r1, r2 \in DOMAIN reqs :
       (/\ Answered(r1) /\ Answered(r2)
        /\ HasChannel(r1) /\ HasChannel(r2)
        /\ ChannelArg(r1) = <<"#">> \o ChannelArg(r2)
        /\ LStrip(ChannelArg(r2), "#") # <<>>)
       => /\ reqs[r1].status = 200 /\ reqs[r2].status = 200
          /\ reqs[r1].result = reqs[r2].result

-----------------------------------------------------------------------------
(* SpecSearch: search.web called one after the other, over a results file  *)
(* that is a mapping from queries to results, a sequence, empty, or        *)
(* absent.                                                                 *)

SearchMapping ==
    JObj([tla |-> JArr(<<Hit("TLA+ home"), Hit("TLA+ video course")>>),
          nothing |-> JArr(<<>>)])

SearchFiles ==
    {JsonFile(SearchMapping),
     JsonFile(JArr(<<Hit("first"), Hit("second")>>)),
     JsonFile(JArr(<<>>)),
     JsonFile(EmptyObject)}

SearchTrees ==
    {[s \in Scenarios |-> "web_search_results.json" :> file] : file \in SearchFiles}
    \cup {[s \in Scenarios |-> NoFiles]}

SearchBodies ==
    {RawJson(EmptyObject),
     RawJson(JObj([query |-> JStr("tla")])),
     RawJson(JObj([q |-> JStr("tla")])),
     RawJson(JObj([query |-> Null, q |-> JStr("nothing")])),
     RawJson(JObj([query |-> JStr("pluscal"), q |-> JStr("tla")])),
     RawJson(JObj([query |-> JInt(5)])),
     RawJson(JObj([query |-> JArr(<<JStr("tla")>>)]))}

SearchCalls == [tool : {"search.web"}, body : SearchBodies]

InitSearch == InitWith({"inbox_triage"}, SearchTrees, 0)

SpecSearch == InitSearch /\ [][NextCalls(SearchCalls)]_vars

\* The query of a request: `query`, then `q`, then "".
QueryOf(r) == _flexget(ArgsOf(r), <<"query", "q">>, JStr(""))

\* The results file of the scenario a request was dispatched under: its
\* JSON value, or Null when the file is absent.
SearchFixture(r) ==
    IF "web_search_results.json" \in DOMAIN fixtures[reqs[r].scenario]
    THEN fixtures[reqs[r].scenario]["web_search_results.json"].val
    ELSE Null

Matched(r) ==
    /\ SearchFixture(r).t = "obj"
    /\ QueryOf(r).t = "str"
    /\ QueryOf(r).s \in DOMAIN SearchFixture(r).f

\* C15: a search.web request is answered 200; its results are the entry of
\* the query when the file is a mapping that has the query as a key, the
\* whole file when the file is a sequence, and otherwise (no file, or a
\* mapping without the query) the one placeholder that names the query;
\* for a query that is not matched the results are never empty.
C15_SearchResults ==
    \A r \in DOMAIN reqs :
       (Answered(r) /\ reqs[r].tool = "search.web" /\ ArgsOf(r).t = "obj") =>
          /\ reqs[r].status = 200
          /\ DOMAIN reqs[r].result = {"results"}
          /\ reqs[r].result["results"] =
                IF Matched(r) THEN SearchFixture(r).f[QueryOf(r).s]
                ELSE IF SearchFixture(r).t = "arr" THEN SearchFixture(r)
                ELSE JArr(<<SearchPlaceholder(QueryOf(r))>>)
          /\ ~Matched(r) => Len(reqs[r].result["results"].items) > 0

\* C15 for a file that is not the empty sequence and a query that is
\* neither a list nor an object.
C15_SearchResultsOnHashableQueries ==
    \A r \in DOMAIN reqs :
       (/\ Answered(r) /\ reqs[r].tool = "search.web" /\ ArgsOf(r).t = "obj"
        /\ SearchFixture(r) # JArr(<<>>)
        /\ QueryOf(r).t \notin {"arr", "obj"}) =>
          /\ reqs[r].status = 200
          /\ DOMAIN reqs[r].result = {"results"}
          /\ reqs[r].result["results"] =
                IF Matched(r) THEN SearchFixture(r).f[QueryOf(r).s]
                ELSE IF SearchFixture(r).t = "arr" THEN SearchFixture(r)
                ELSE JArr(<<SearchPlaceholder(QueryOf(r))>>)
          /\ ~Matched(r) => Len(reqs[r].result["results"].items) > 0

-----------------------------------------------------------------------------
(* SpecMemory: memory.read called one after the other with paths of notes  *)
(* that exist, are missing, are directories or cannot be read, and with    *)
(* paths that are no strings.                                              *)

MemoryDir ==
    ("memory" :> Directory)
    @@ ("memory/notes.md" :> NoteFile("buy milk"))
    @@ ("memory/empty.md" :> NoteFile(""))
    @@ ("memory/sub" :> Directory)
    @@ ("memory/locked.md" :> Unreadable)

MemoryTrees == {[s \in Scenarios |-> MemoryDir], [s \in Scenarios |-> NoFiles]}

MemoryBodies ==
    {RawJson(EmptyObject),
     RawJson(JObj([path |-> JStr(<<"notes.md">>)])),
     RawJson(JObj([key |-> JStr(<<"notes.md">>)])),
     RawJson(JObj([path |-> Null, key |-> JStr(<<"empty.md">>)])),
     RawJson(JObj([path |-> JStr(<<>>), key |-> JStr(<<"notes.md">>)])),
     RawJson(JObj([path |-> JStr(<<"missing.md">>)])),
     RawJson(JObj([path |-> JStr(<<"sub">>)])),
     RawJson(JObj([path |-> JStr(<<"locked.md">>)])),
     RawJson(JObj([path |-> JInt(5)])),
     RawJson(JObj([key |-> JArr(<<JStr(<<"notes.md">>)>>)]))}

MemoryCalls == [tool : {"memory.read"}, body : MemoryBodies]

InitMemory == InitWith({"inbox_triage"}, MemoryTrees, 0)

SpecMemory == InitMemory /\ [][NextCalls(MemoryCalls)]_vars

\* The path argument of a request: `path`, then `key`, then "".
PathOf(r) == _flexget(ArgsOf(r), <<"path", "key">>, JStr(<<>>))

\* The file a request's path names under the scenario of its dispatch.
NoteOf(r) == Stat(Disk, MemoryPath(reqs[r].scenario, PathOf(r).s))

\* The request names a note that is a text file that can be read.
ReadableNote(r) ==
    /\ PathOf(r).t = "str"
    /\ Readable(NoteOf(r))

\* C16: a memory.read request with an argument object is answered 200,
\* with the text of the note and exists true when the path (`path`, then
\* `key`) names a file that can be read, and with content null and exists
\* false in every other case (no such file, a directory, a read error, a
\* path that is no string, no path); exists is true exactly when content
\* is not null.
C16_MemoryReadNeverFails ==
    \A r \in DOMAIN reqs :
       (Answered(r) /\ reqs[r].tool = "memory.read" /\ ArgsOf(r).t = "obj") =>
          /\ reqs[r].status = 200
          /\ reqs[r].error = ""
          /\ DOMAIN reqs[r].result = {"content", "exists"}
          /\ reqs[r].result["exists"] = (reqs[r].result["content"] # Null)
          /\ IF ReadableNote(r)
             THEN reqs[r].result =
                     [content |-> TextOf(NoteOf(r)), exists |-> TRUE]
             ELSE reqs[r].result = [content |-> Null, exists |-> FALSE]

\* C16 witness: one request read the text of a note through the alias
\* `key`, and one that named a file that cannot be read was answered 200
\* with exists false.
C16_Witness ==
    \E r1, r2 \in DOMAIN reqs :
       /\ reqs[r1].body = RawJson(JObj([key |-> JStr(<<"notes.md">>)]))
       /\ Answered(r1) /\ reqs[r1].status = 200
       /\ reqs[r1].result = [content |-> JStr("buy milk"), exists |-> TRUE]
       /\ reqs[r2].body = RawJson(JObj([path |-> JStr(<<"locked.md">>)]))
       /\ Answered(r2) /\ reqs[r2].status = 200
       /\ "memory/locked.md" \in DOMAIN fixtures[reqs[r2].scenario]
       /\ reqs[r2].result = [content |-> Null, exists |-> FALSE]

-----------------------------------------------------------------------------
(* SpecDraft: email.draft called one after the other with argument objects *)
(* that name the target and the instructions under several aliases, with   *)
(* null and with falsy values.                                             *)

DraftBodies ==
    {RawJson(EmptyObject),
     RawJson(JObj([message_id |-> JStr("m1"), id |-> JStr("x"),
                   instructions |-> JStr("say yes"), body |-> JStr("b")])),
     RawJson(JObj([message_id |-> Null, messageId |-> JStr("m2"),
                   instructions |-> Null, body |-> JStr("say no")])),
     RawJson(JObj([email_id |-> JStr(""), emailId |-> JStr("e4"),
                   text |-> JStr(""), reply |-> JStr("r")])),
     RawJson(JObj([emailId |-> JInt(0), id |-> JStr("z"),
                   content |-> JBool(FALSE), message |-> JStr("m")])),
     RawJson(JObj([id |-> JInt(42), message |-> JStr("last alias")])),
     RawJson(JObj([message_id |-> Null, messageId |-> Null, email_id |-> Null,
                   emailId |-> Null, id |-> Null, reply |-> Null]))}

DraftCalls == [tool : {"email.draft"}, body : DraftBodies]

InitDraft == InitWith({"inbox_triage"}, {[s \in Scenarios |-> NoFiles]}, 0)

SpecDraft == InitDraft /\ [][NextCalls(DraftCalls)]_vars

TargetAliases == <<"message_id", "messageId", "email_id", "emailId", "id">>
InstructionAliases ==
    <<"instructions", "body", "content", "text", "reply", "message">>

\* The aliases that the arguments hold with a value that is not null.
Given(data, aliases) ==
    {i \in DOMAIN aliases :
        aliases[i] \in DOMAIN data.f /\ data.f[aliases[i]] # Null}

\* The value of the first alias given, else the default.
FirstGiven(data, aliases, default) ==
    IF Given(data, aliases) = {}
    THEN default
    ELSE LET first == CHOOSE i \in Given(data, aliases) :
                         \A j \in Given(data, aliases) : i <= j
         IN  data.f[aliases[first]]

\* C17: alias resolution returns the value of the first alias, in the
\* order of the list, that the arguments hold with a value that is not
\* null (a null is skipped; "", 0 and false are returned), else the
\* default. An email.draft request with an argument object is answered
\* 200; its draft_id is "draft_" and the target id resolved in the order
\* message_id, messageId, email_id, emailId, id (default "unknown"); its
\* preview holds the instructions resolved in the order instructions,
\* body, content, text, reply, message (default "No instructions
\* provided"); requests with equal arguments get equal results.
C17_AliasResolution ==
    /\ \A r \in DOMAIN reqs :
          (Answered(r) /\ reqs[r].tool = "email.draft" /\ ArgsOf(r).t = "obj") =>
             LET target == FirstGiven(ArgsOf(r), TargetAliases, JStr("unknown"))
                 instructions ==
                     FirstGiven(ArgsOf(r), InstructionAliases,
                                JStr("No instructions provided"))
             IN  /\ _flexget(ArgsOf(r), TargetAliases, JStr("unknown")) = target
                 /\ reqs[r].status = 200
                 /\ DOMAIN reqs[r].result = {"draft_id", "preview"}
                 /\ reqs[r].result["draft_id"] =
                       FStr(<<Lit("draft_"), Lit(Str(target))>>)
                 /\ reqs[r].result["preview"] =
                       FStr(<<Lit("[Draft reply to "), Lit(Str(target)),
                              Lit("]: "), Prefix(Str(instructions), 100),
                              Lit("...")>>)
    /\ \A r1, r2 \in DOMAIN reqs :
          (/\ Answered(r1) /\ Answered(r2)
           /\ reqs[r1].tool = "email.draft" /\ reqs[r2].tool = "email.draft"
           /\ reqs[r1].body = reqs[r2].body)
          => reqs[r1].result = reqs[r2].result

\* C17 witness: a draft whose message_id is null took messageId, and a
\* draft whose email_id is "" took it, before the emailId the arguments
\* also hold.
C17_Witness ==
    \E r1, r2 \in DOMAIN reqs :
       /\ Answered(r1) /\ Answered(r2)
       /\ reqs[r1].tool = "email.draft" /\ reqs[r2].tool = "email.draft"
       /\ Get(ArgsOf(r1), "message_id") = Null
       /\ "message_id" \in DOMAIN ArgsOf(r1).f
       /\ reqs[r1].result["draft_id"] = FStr(<<Lit("draft_"), Lit("m2")>>)
       /\ Get(ArgsOf(r2), "emailId") = JStr("e4")
       /\ reqs[r2].result["draft_id"] = FStr(<<Lit("draft_"), Lit("")>>)

-----------------------------------------------------------------------------
(* SpecLogs: one client that sends tool requests (answered 200, 404 and    *)
(* 500), scenario switches and GETs to the control endpoints, one          *)
(* operation after the other. tasks.json is a list under inbox_triage and  *)
(* not JSON under morning_brief.                                           *)

LogsTree ==
    [inbox_triage |-> TasksDir, morning_brief |-> "tasks.json" :> Malformed]

LogsCalls ==
    {[tool |-> "task.list", body |-> RawEmpty],
     [tool |-> "exec", body |-> RawJson(JObj([command |-> JStr("ls")]))]}

InitLogs == InitWith({"inbox_triage"}, {LogsTree}, 0)

NextLogs ==
    \/ /\ Len(reqs) < MaxCalls
       /\ InFlight = {}
       /\ \E call \in LogsCalls : MiddlewareEnter(call.tool, call.body)
    \/ \E r \in DOMAIN reqs : HandleToolLookup(r)
    \/ \E r \in DOMAIN reqs : HandleToolDispatch(r)
    \/ \E r \in DOMAIN reqs : MiddlewareLog(r)
    \/ /\ Len(resets.args) < MaxResets
       /\ InFlight = {}
       /\ \E scenario \in Scenarios : set_scenario(scenario)
    \/ /\ reply.count < MaxGets
       /\ InFlight = {}
       /\ \E endpoint \in ControlEndpoints : ControlGet(endpoint)

SpecLogs == InitLogs /\ [][NextLogs]_vars

IsPrefix(before, after) ==
    /\ Len(before) <= Len(after)
    /\ \A i \in DOMAIN before : after[i] = before[i]

\* The entries of a log stand in the order in which their requests were
\* answered (the client sends request r + 1 after request r is answered).
InCompletionOrder(log) ==
    \A i, j \in DOMAIN log : i < j => log[i].rid < log[j].rid

\* C18: a step that is no POST /set_scenario (a tool request answered 200,
\* 404 or 500, a GET /health, /tools, /tool_calls or /all_requests) leaves
\* tool_calls and all_requests as they are or with entries added at the
\* end, in the order the requests complete; every step, set_scenario
\* included, leaves each durable file as it is or with lines added at the
\* end.
C18_LogsClearedOnlyByReset ==
    [][/\ ~Switches =>
             /\ IsPrefix(tool_calls, tool_calls')
             /\ IsPrefix(all_requests, all_requests')
       /\ InCompletionOrder(tool_calls') /\ InCompletionOrder(all_requests')
       /\ \A s \in Scenarios :
             /\ IsPrefix(calls_file[s], calls_file'[s])
             /\ IsPrefix(all_requests_file[s], all_requests_file'[s])
      ]_vars

\* C18 witness: after a request logged under inbox_triage, a switch to
\* morning_brief and a switch back, a second request was logged:
\* inbox_triage's calls file holds both lines and tool_calls the second
\* only; a GET /tool_calls was answered on the way.
C18_Witness ==
    /\ resets.args = <<"morning_brief", "inbox_triage">>
    /\ Len(calls_file["inbox_triage"]) = 2
    /\ Len(all_requests_file["inbox_triage"]) = 2
    /\ Len(tool_calls) = 1 /\ tool_calls[1].rid = 2
    /\ Len(all_requests) = 1
    /\ reply.endpoint = "/tool_calls"
    /\ InFlight = {}

-----------------------------------------------------------------------------
\* The entries of all_requests with success true, in order.
SuccessfulRequests ==
    LET Succeeded(entry) == entry.success
    IN  SelectSeq(all_requests, Succeeded)

\* C19: whenever no tool request is in flight, all_requests has as many
\* entries with success true as tool_calls has entries, and the i-th of
\* them names the tool of the i-th entry of tool_calls - also after
\* switches that fall between the dispatch and the request-log step of a
\* request.
C19_SuccessCountsAgree ==
    InFlight = {} =>
       /\ Len(SuccessfulRequests) = Len(tool_calls)
       /\ get_all_requests.summary.success = Len(get_tool_calls.calls)
       /\ \A i \in DOMAIN tool_calls :
             i \in DOMAIN SuccessfulRequests
             => SuccessfulRequests[i].tool = tool_calls[i].tool

-----------------------------------------------------------------------------
\* C20: every write_action request with an argument object, whatever its
\* fields (a field named ts included), is answered 2xx with a response
\* that has every key of the entry's default_response, also where every
\* fixture file is unreadable as JSON.
C20_WriteActionIsTotal ==
    \A r \in DOMAIN reqs :
       (Answered(r) /\ IsKind(r, "write_action") /\ ArgsOf(r).t = "obj") =>
          /\ IsSuccess(reqs[r].status)
          /\ reqs[r].error = ""
          /\ DOMAIN TOOL_CATALOG[reqs[r].tool].default_response
                \subseteq DOMAIN reqs[r].result

-----------------------------------------------------------------------------
(* SpecConfine: memory.read called one after the other, under either       *)
(* scenario, with paths that are relative, that hold ".." components and   *)
(* that are absolute. Each scenario has notes of its own; inbox_triage has *)
(* a fixture next to its note directory, and the host has files outside    *)
(* FIXTURES_PATH.                                                          *)

ConfineDir ==
    TasksDir
    @@ ("memory" :> Directory)
    @@ ("memory/notes.md" :> NoteFile("buy milk"))
    @@ ("memory/sub" :> Directory)

BriefDir ==
    ("memory" :> Directory)
    @@ ("memory/plan.md" :> NoteFile("ship friday"))

ConfineTrees ==
    {[inbox_triage |-> ConfineDir, morning_brief |-> BriefDir],
     [inbox_triage |-> ConfineDir, morning_brief |-> NoFiles]}

ConfinePaths ==
    {<<"notes.md">>,
     <<"plan.md">>,
     <<"sub", "..", "notes.md">>,
     <<"missing", "..", "notes.md">>,
     <<"..", "tasks.json">>,
     <<"..", "..", "morning_brief", "memory", "plan.md">>,
     <<"..", "..", "morning_brief", "..", "inbox_triage", "memory", "notes.md">>,
     <<"/", "etc", "hostname">>,
     <<"/", "srv", "fixtures", "inbox_triage", "memory", "notes.md">>}

ConfineBodies == {RawJson(JObj([path |-> JStr(path)])) : path \in ConfinePaths}

ConfineCalls == [tool : {"memory.read"}, body : ConfineBodies]

InitConfine == InitWith(Scenarios, ConfineTrees, 0)

SpecConfine == InitConfine /\ [][NextCalls(ConfineCalls)]_vars

\* <fixtures>/<scenario>/memory
NotesDir(scenario) == FIXTURES_PATH \o <<scenario, "memory">>

\* A place below a directory
IsBelow(dir, place) == IsPathPrefix(dir, place) /\ place # dir

\* A memory.read request answered for an argument object whose path is a
\* string.
ReadsPath(r) ==
    /\ Answered(r)
    /\ reqs[r].tool = "memory.read"
    /\ ArgsOf(r).t = "obj"
    /\ PathOf(r).t = "str"

\* C21: for every path argument (relative, with ".." components, or
\* absolute), the content memory.read returns with exists true is the
\* content of a file below <fixtures>/<scenario>/memory of the scenario
\* that is current at the dispatch, and the result is the one a server
\* gives whose disk holds the files of that directory and nothing else.
C21_MemoryReadIsConfined ==
    \A r \in DOMAIN reqs :
       ReadsPath(r) =>
          LET scenario == reqs[r].scenario
              place == Resolve(Disk, MemoryPath(scenario, PathOf(r).s))
          IN  /\ reqs[r].result["exists"] =>
                    /\ IsBelow(NotesDir(scenario), place)
                    /\ reqs[r].result["content"] = TextOf(FileAt(Disk, place))
              /\ Ok(reqs[r].result) =
                    MemoryReadOn(Only(Disk, NotesDir(scenario)), ArgsOf(r),
                                 scenario)

\* C21 for the paths that are relative and have no ".." component.
C21_ConfinedOnPlainPaths ==
    \A r \in DOMAIN reqs :
       (/\ ReadsPath(r)
        /\ ~IsAbsolute(PathOf(r).s)
        /\ ".." \notin Range(PathOf(r).s)) =>
          LET scenario == reqs[r].scenario
              place == Resolve(Disk, MemoryPath(scenario, PathOf(r).s))
          IN  /\ reqs[r].result["exists"] =>
                    /\ IsBelow(NotesDir(scenario), place)
                    /\ reqs[r].result["content"] = TextOf(FileAt(Disk, place))
              /\ Ok(reqs[r].result) =
                    MemoryReadOn(Only(Disk, NotesDir(scenario)), ArgsOf(r),
                                 scenario)

-----------------------------------------------------------------------------
(* SpecEpisode: one episode of the runner (run_episode_openai.py) against  *)
(* the server: reset_scenario, then the tool calls of the model, one       *)
(* blocking POST after the other, then GET /tool_calls. The runner         *)
(* forwards the name the model gives (tc.function.name) as it is: a name   *)
(* of TOOL_SCHEMAS, or any other, such as a key of the server's catalog.   *)

\* TOOL_SCHEMAS, run_episode_openai.py:40-147: the names advertised to the
\* model, each with its required parameter.
TOOL_SCHEMAS ==
    ("exec" :> "command")
    @@ ("slack" :> "action")
    @@ ("memory_search" :> "query")
    @@ ("memory_get" :> "path")
    @@ ("web_search" :> "query")
    @@ ("read" :> "path")

\* The names the model calls: the advertised ones, and one it was not given.
ModelNames == DOMAIN TOOL_SCHEMAS \cup {"task.list"}

\* The arguments the runner forwards for a name: the required parameter,
\* or {} where the model's argument text is not JSON (lines 292-295).
ModelArgs(name) ==
    {EmptyObject} \cup
    (IF name \in DOMAIN TOOL_SCHEMAS
     THEN {JObj(TOOL_SCHEMAS[name] :> JStr("x"))}
     ELSE {})

\* What call_mock_tool returns, r.text (line 219): the body of the response.
ResponseText(r) ==
    IF reqs[r].status = 500 THEN "Internal Server Error" ELSE reqs[r].result

\* reset_scenario(args.scenario), run_episode_openai.py:204-208 and 366,
\* on the server the runner started with SCENARIO = args.scenario.
reset_scenario ==
    /\ Len(resets.args) = 0
    /\ set_scenario(CURRENT_SCENARIO)

\* run_agent_loop, lines 289-297: the next tool call of the model is
\* counted and handed to call_mock_tool.
RunnerToolCall(name, args) ==
    /\ episode.pc = "loop"
    /\ episode.sending = NoCall
    /\ Len(resets.args) = 1
    /\ episode.tool_call_count < MaxCalls
    /\ episode' = [episode EXCEPT
                      !.tool_call_count = @ + 1,
                      !.sending = [tool |-> name, body |-> RawJson(args)]]
    /\ UNCHANGED <<CURRENT_SCENARIO, tool_calls, all_requests, calls_file,
                   all_requests_file, fixtures, reqs, resets, ioFaults,
                   reply>>

\* call_mock_tool, lines 213-218: the POST reaches the server.
RunnerPost ==
    /\ episode.sending # NoCall
    /\ Len(reqs) < episode.tool_call_count
    /\ MiddlewareEnter(episode.sending.tool, episode.sending.body)

\* call_mock_tool returns the response text, whatever the status, and
\* run_agent_loop appends it to the messages (lines 219, 300-306).
RunnerReceives ==
    /\ episode.sending # NoCall
    /\ Len(reqs) = episode.tool_call_count
    /\ Answered(Len(reqs))
    /\ episode' = [episode EXCEPT
                      !.sending = NoCall,
                      !.messages = Append(@, ResponseText(Len(reqs)))]
    /\ UNCHANGED <<CURRENT_SCENARIO, tool_calls, all_requests, calls_file,
                   all_requests_file, fixtures, reqs, resets, ioFaults,
                   reply>>

\* The model stops calling tools: get_tool_calls_log, lines 224-231 and
\* 317, answered by the server's get_tool_calls.
RunnerGetsLog ==
    /\ episode.pc = "loop"
    /\ episode.sending = NoCall
    /\ Len(resets.args) = 1
    /\ reply' = [count |-> reply.count + 1,
                 endpoint |-> "/tool_calls",
                 body |-> get_tool_calls]
    /\ episode' = [episode EXCEPT !.pc = "done",
                                  !.logged_calls = get_tool_calls.calls]
    /\ UNCHANGED <<CURRENT_SCENARIO, tool_calls, all_requests, calls_file,
                   all_requests_file, fixtures, reqs, resets, ioFaults>>

InitEpisode == InitWith(Scenarios, {[s \in Scenarios |-> TasksDir]}, 0)

NextEpisode ==
    \/ reset_scenario
    \/ \E name \in ModelNames : \E args \in ModelArgs(name) :
          RunnerToolCall(name, args)
    \/ RunnerPost
    \/ \E r \in DOMAIN reqs : HandleToolLookup(r)
    \/ \E r \in DOMAIN reqs : HandleToolDispatch(r)
    \/ \E r \in DOMAIN reqs : MiddlewareLog(r)
    \/ RunnerReceives
    \/ RunnerGetsLog

SpecEpisode == InitEpisode /\ [][NextEpisode]_vars

\* The return value of run_agent_loop, lines 322-329
tool_calls_total == episode.tool_call_count

Advertised(r) == reqs[r].tool \in DOMAIN TOOL_SCHEMAS

\* C22: every request the runner forwards for a name of TOOL_SCHEMAS is
\* dispatched by the server's catalog and answered 2xx, and after an
\* episode in which the model called such names only, the success log
\* the runner got from GET /tool_calls has tool_calls_total entries.
C22_ForwardedCallsReachCatalog ==
    /\ \A r \in DOMAIN reqs :
          (Answered(r) /\ Advertised(r)) =>
             /\ reqs[r].tool \in DOMAIN TOOL_CATALOG
             /\ Dispatched(r)
             /\ IsSuccess(reqs[r].status)
    /\ (episode.pc = "done" /\ \A r \in DOMAIN reqs : Advertised(r)) =>
          Len(episode.logged_calls) = tool_calls_total

\* What holds in place of C22: no name of TOOL_SCHEMAS is a key of the
\* catalog, every request for one is answered 404, and the success log
\* the runner gets has one entry for each call of a catalog name.
C22_AdvertisedNamesAreUnknown ==
    /\ DOMAIN TOOL_SCHEMAS \cap DOMAIN TOOL_CATALOG = {}
    /\ \A r \in DOMAIN reqs :
          (Answered(r) /\ Advertised(r)) =>
             reqs[r].status = 404 /\ ~Dispatched(r)
    /\ episode.pc = "done" =>
          Len(episode.logged_calls) =
             Cardinality({r \in DOMAIN reqs : ~Advertised(r)})

====
